---- MODULE Spec2Model ----
(***************************************************************************)
(* Path search of the thermodynamics simulator: src/thermodynamics.py      *)
(* (state model) and src/pathfinding.py (grid builder, dijkstra, astar,    *)
(* find_optimal_path, compare_algorithms).                                  *)
(*                                                                         *)
(* Numbers.  The program computes in binary floating point; the model      *)
(* computes in fixed point:                                                *)
(*   pressures, volumes   integers, Unit ticks per 1.0 (the grid samples   *)
(*                        of np.linspace(1, 10, N) are whole ticks for     *)
(*                        every N with (N-1) dividing 9*Unit)              *)
(*   logarithms           LnScale units per 1.0                            *)
(*   entropies            EntScale units per 1.0                           *)
(*   temperatures         Unit*Unit units per kelvin                       *)
(*   edge weights, path costs, heuristic values                            *)
(*                        CostScale units per 1.0; a max_work weight       *)
(*                        -(P1+P2)/2*(V2-V1) is then an exact integer      *)
(* Divisions round towards minus infinity (\div).                          *)
(***************************************************************************)
EXTENDS Integers, Sequences, FiniteSets, TLC

\* ---------------------------------------------------------------- bounds
\* grid_size ranges over 1 .. MaxGridSize.
MaxGridSize == 4
\* A run of compare_algorithms takes 0 .. MaxElapsed units of time.
MaxElapsed == 1
\* astar's `while open_set` loop is followed for MaxPops pops; on the grids
\* up to MaxGridSize every search that ends has ended by then.
MaxPops == 45
\* The most samples of an array handed to calculate_work_general.
MaxSamples == 2

\* ------------------------------------------------------- number scales
Unit == 12
LnScale == 10000
LnFine == 100000
EntScale == 1000000
CostScale == 200 * Unit * Unit

Abs(x) == IF x < 0 THEN -x ELSE x

\* a / b rounded to the nearest integer (b > 0).
RoundDiv(a, b) == (2 * a + b) \div (2 * b)

\* float('inf'): larger than every cost the model can form.
Inf == 1000000000

\* ------------------------------------------------------ thermodynamics.py
\* R = 0.0821, as the fraction R_num / R_den.
R_num == 821
R_den == 10000

\* n = 1.0 mol
n == 1

\* GAS_TYPES: Cv and Cp as multiples of R/2 (monatomic 3/2 R and 5/2 R, ...).
GAS_TYPES ==
  [monatomic  |-> [Cv2 |-> 3, Cp2 |-> 5],
   diatomic   |-> [Cv2 |-> 5, Cp2 |-> 7],
   polyatomic |-> [Cv2 |-> 6, Cp2 |-> 8]]

get_gas_properties(gas_type) ==
  IF gas_type \in DOMAIN GAS_TYPES THEN GAS_TYPES[gas_type]
  ELSE GAS_TYPES["monatomic"]

\* np.log(a / b) for a, b > 0, in LnScale units:
\* ln(a/b) = 2 * atanh(z) = 2 * (z + z^3/3 + z^5/5 + ...), z = (a-b)/(a+b).
\* The series is summed in LnFine units (t is LnFine * z^k) and stops when
\* the term has shrunk to 0; the sum is then rounded to LnScale units.
RECURSIVE AtanhSeries(_, _, _, _)
AtanhSeries(t, k, num2, den2) ==
  IF t = 0 THEN 0
  ELSE (t \div k) + AtanhSeries((t * num2) \div den2, k + 2, num2, den2)

LnRatio(hi, lo) ==
  (2 * AtanhSeries((LnFine * (hi - lo)) \div (hi + lo), 1,
                   (hi - lo) * (hi - lo), (hi + lo) * (hi + lo))
   + (LnFine \div LnScale) \div 2) \div (LnFine \div LnScale)

np_log(a, b) == IF a >= b THEN LnRatio(a, b) ELSE -LnRatio(b, a)

\* calculate_temperature: T = P*V/(mol*R), 0 on a zero divisor.
\* P, V in ticks; the result in 1/(Unit*Unit) kelvin.
calculate_temperature(P, V, mol) ==
  IF mol = 0 \/ R_num = 0 THEN 0
  ELSE RoundDiv(P * V * R_den, mol * R_num)

\* mol * R * T, in 1/(Unit*Unit) units (L atm).
nRT(T, mol) == RoundDiv(mol * R_num * T, R_den)

\* a / b rounded to the nearest integer, for b of either sign.
SignedDiv(a, b) == IF b < 0 THEN RoundDiv(-a, -b) ELSE RoundDiv(a, b)

\* calculate_pressure: P = mol*R*T/V, 0 when V is 0.  T in 1/(Unit*Unit)
\* kelvin, V in ticks; the result in ticks.
calculate_pressure(T, V, mol) ==
  IF V = 0 THEN 0 ELSE SignedDiv(nRT(T, mol), V)

\* calculate_volume: V = mol*R*T/P, 0 when P is 0; the result in ticks.
calculate_volume(T, P, mol) ==
  IF P = 0 THEN 0 ELSE SignedDiv(nRT(T, mol), P)

\* calculate_entropy_change: n R ln(V2/V1) + n Cv ln(T2/T1), in EntScale
\* units; 0 if any of V1, V2, T1, T2 is <= 0.
\* ln(T2/T1) is formed as ln(P2/P1) + ln(V2/V1) (T = P V / (n R)).
calculate_entropy_change(P1, V1, P2, V2, gas_type, mol) ==
  LET Cv2 == get_gas_properties(gas_type).Cv2
      T1 == calculate_temperature(P1, V1, mol)
      T2 == calculate_temperature(P2, V2, mol)
  IN IF V1 <= 0 \/ V2 <= 0 \/ T1 <= 0 \/ T2 <= 0 THEN 0
     ELSE LET lnV == np_log(V2, V1)
              lnT == np_log(P2, P1) + lnV
          IN (mol * R_num * (2 * lnV + Cv2 * lnT)) \div 200

\* ----------------------------------------------------------- pathfinding.py
\* create_grid: np.linspace(lo, hi, grid_size), indices 0 .. grid_size-1.
linspace(lo, hi, grid_size) ==
  [k \in 0 .. grid_size - 1 |->
     IF grid_size = 1 THEN lo ELSE lo + (k * (hi - lo)) \div (grid_size - 1)]

create_grid(P_min, P_max, V_min, V_max, grid_size) ==
  [P_grid |-> linspace(P_min, P_max, grid_size),
   V_grid |-> linspace(V_min, V_max, grid_size)]

\* An argmin that returns the highest index of a minimal element.
argmin_abs_last(grid, x) ==
  CHOOSE i \in DOMAIN grid :
    /\ \A k \in DOMAIN grid : Abs(grid[i] - x) <= Abs(grid[k] - x)
    /\ \A k \in DOMAIN grid : Abs(grid[k] - x) = Abs(grid[i] - x) => i >= k

\* np.argmin(np.abs(grid - x)): the lowest index of a minimal element.
argmin_abs(grid, x) ==
  CHOOSE i \in DOMAIN grid :
    /\ \A k \in DOMAIN grid : Abs(grid[i] - x) <= Abs(grid[k] - x)
    /\ \A k \in DOMAIN grid : Abs(grid[k] - x) = Abs(grid[i] - x) => i <= k

find_nearest_grid_point(P, V, P_grid, V_grid) ==
  <<argmin_abs(P_grid, P), argmin_abs(V_grid, V)>>

\* An edge weight that is the size of the work under every objective.
calculate_edge_weight_unsigned(P1, V1, P2, V2, optimization_target) ==
  Abs((P1 + P2) * (V2 - V1) * (CostScale \div (2 * Unit * Unit)))

\* An edge weight whose min_entropy branch has 0 in the place of 0.01.
calculate_edge_weight_floor_zero(P1, V1, P2, V2, optimization_target) ==
  IF optimization_target = "min_entropy"
  THEN LET dS == calculate_entropy_change(P1, V1, P2, V2, "monatomic", n)
       IN IF dS > 0 THEN (Abs(dS) * (Unit * Unit)) \div (EntScale \div 200)
          ELSE 0
  ELSE -((P1 + P2) * (V2 - V1) * (CostScale \div (2 * Unit * Unit)))

\* calculate_edge_weight, in CostScale units.
\* W = P_avg * dV = (P1+P2)/2 * (V2-V1) / Unit^2 = (P1+P2)*(V2-V1)*100 units.
calculate_edge_weight(P1, V1, P2, V2, optimization_target) ==
  LET dV == V2 - V1
      W == (P1 + P2) * dV * (CostScale \div (2 * Unit * Unit))
  IN CASE optimization_target = "max_work" -> -W
       [] optimization_target = "min_entropy" ->
            LET dS == calculate_entropy_change(P1, V1, P2, V2, "monatomic", n)
            IN IF dS > 0 THEN (Abs(dS) * (Unit * Unit)) \div (EntScale \div 200)
               ELSE CostScale \div 100
       [] optimization_target = "max_efficiency" ->
            LET T1 == calculate_temperature(P1, V1, n)
                lnV == IF V2 > 0 /\ V1 > 0 THEN np_log(V2, V1) ELSE 0
                W_rev == nRT(T1, n) * lnV
            IN IF T1 > 0 /\ dV # 0 /\ W_rev # 0
               THEN \* efficiency = W / W_rev, in 1/1000
                    LET q == ((P1 + P2) * dV * LnScale) \div (2 * nRT(T1, n))
                        efficiency == (q * 1000) \div lnV
                    IN -((efficiency * (CostScale \div 200)) \div 5)
               ELSE 0
       [] OTHER -> -W

\* constraints=None.  is_valid_edge only tests `if constraints:`, which
\* None and the empty dict {} fail alike, so None is the empty mapping.
NoConstraints == [key \in {} |-> 0]

\* `if constraints:`
Truthy(constraints) == DOMAIN constraints # {}

\* An edge test that applies the second-law filter only.
is_valid_edge_unconstrained(P1, V1, P2, V2, check_entropy, constraints) ==
  ~(check_entropy
    /\ calculate_entropy_change(P1, V1, P2, V2, "monatomic", n)
          < -(EntScale \div 10))

\* An edge test that applies everything but the second-law filter.
is_valid_edge_any_entropy(P1, V1, P2, V2, check_entropy, constraints) ==
  LET T1 == calculate_temperature(P1, V1, n)
      T2 == calculate_temperature(P2, V2, n)
      has(key) == key \in DOMAIN constraints
  IN /\ V2 * 10 >= Unit /\ P2 * 10 >= Unit
     /\ has("max_temperature")
          => T2 <= constraints["max_temperature"] * Unit * Unit
     /\ has("min_pressure") => P2 >= constraints["min_pressure"]
     /\ has("max_pressure") => P2 <= constraints["max_pressure"]
     /\ (has("isothermal_only") /\ constraints["isothermal_only"])
          => Abs(T2 - T1) <= 10 * Unit * Unit

\* is_valid_edge.  0.1 is Unit/10 ticks; max_temperature is in kelvin and
\* the pressure limits are in ticks.
is_valid_edge(P1, V1, P2, V2, check_entropy, constraints) ==
  LET T1 == calculate_temperature(P1, V1, n)
      T2 == calculate_temperature(P2, V2, n)
      has(key) == key \in DOMAIN constraints
  IN IF V2 * 10 < Unit \/ P2 * 10 < Unit THEN FALSE
     ELSE IF /\ Truthy(constraints)
             /\ \/ has("max_temperature")
                   /\ T2 > constraints["max_temperature"] * Unit * Unit
                \/ has("min_pressure") /\ P2 < constraints["min_pressure"]
                \/ has("max_pressure") /\ P2 > constraints["max_pressure"]
                \/ has("isothermal_only") /\ constraints["isothermal_only"]
                   /\ Abs(T2 - T1) > 10 * Unit * Unit
          THEN FALSE
     ELSE IF /\ check_entropy
             /\ calculate_entropy_change(P1, V1, P2, V2, "monatomic", n)
                  < -(EntScale \div 10)
          THEN FALSE
     ELSE TRUE

\* The 8 directions whatever allow_diagonal says.
directions_always_diagonal(allow_diagonal) ==
  << <<-1, -1>>, <<-1, 0>>, <<-1, 1>>, <<0, -1>>,
     <<0, 1>>, <<1, -1>>, <<1, 0>>, <<1, 1>> >>

directions(allow_diagonal) ==
  IF allow_diagonal
  THEN << <<-1, -1>>, <<-1, 0>>, <<-1, 1>>, <<0, -1>>,
          <<0, 1>>, <<1, -1>>, <<1, 0>>, <<1, 1>> >>
  ELSE << <<-1, 0>>, <<1, 0>>, <<0, -1>>, <<0, 1>> >>

\* The edges build_graph appends to graph[node], in direction order.
RECURSIVE NodeEdges(_, _, _, _, _, _, _)
NodeEdges(P_grid, V_grid, node, dirs, k, optimization_target, constraints) ==
  IF k > Len(dirs) THEN <<>>
  ELSE LET grid_size == Cardinality(DOMAIN P_grid)
           ni == node[1] + dirs[k][1]
           nj == node[2] + dirs[k][2]
           rest == NodeEdges(P_grid, V_grid, node, dirs, k + 1,
                             optimization_target, constraints)
       IN IF /\ 0 <= ni /\ ni < grid_size /\ 0 <= nj /\ nj < grid_size
             /\ is_valid_edge(P_grid[node[1]], V_grid[node[2]],
                              P_grid[ni], V_grid[nj], TRUE, constraints)
          THEN << <<<<ni, nj>>,
                    calculate_edge_weight(P_grid[node[1]], V_grid[node[2]],
                                          P_grid[ni], V_grid[nj],
                                          optimization_target)>> >> \o rest
          ELSE rest

\* build_graph: node -> sequence of <<neighbor, weight>>.
build_graph(P_grid, V_grid, allow_diagonal, optimization_target, constraints) ==
  LET grid_size == Cardinality(DOMAIN P_grid)
  IN [node \in (0 .. grid_size - 1) \X (0 .. grid_size - 1) |->
        NodeEdges(P_grid, V_grid, node, directions(allow_diagonal), 1,
                  optimization_target, constraints)]

\* ------------------------------------------------------------ heapq
\* Python's tuple order on an entry (a key or two, then the node (i, j)).
Flat(entry) ==
  IF Len(entry) = 2 THEN <<entry[1], entry[2][1], entry[2][2]>>
  ELSE <<entry[1], entry[2], entry[3][1], entry[3][2]>>

TupleLess(a, b) ==
  LET x == Flat(a)
      y == Flat(b)
  IN \E k \in 1 .. Len(x) :
       /\ x[k] < y[k]
       /\ \A m \in 1 .. k - 1 : x[m] = y[m]

\* The position of the entry heapq.heappop returns: a least entry.
HeapMinIndex(heap) ==
  CHOOSE k \in 1 .. Len(heap) :
    /\ \A m \in 1 .. Len(heap) : ~TupleLess(heap[m], heap[k])
    /\ \A m \in 1 .. k - 1 : TupleLess(heap[k], heap[m])

\* A pop that takes the entry pushed last, whatever its key.
heappop_newest(heap) ==
  [item |-> heap[Len(heap)], heap |-> SubSeq(heap, 1, Len(heap) - 1)]

heappop(heap) ==
  LET k == HeapMinIndex(heap)
  IN [item |-> heap[k],
      heap |-> SubSeq(heap, 1, k - 1) \o SubSeq(heap, k + 1, Len(heap))]

\* A push that stores the entry twice.
heappush_twice(heap, entry) == heap \o <<entry, entry>>

heappush(heap, entry) == Append(heap, entry)

\* No node: previous[node] = None.
NoNode == <<-1, -1>>

\* The path of a solver that returns (None, inf).
NonePath == <<NoNode>>

\* The relaxation recording a predecessor only for a neighbour that has
\* none yet.
RECURSIVE DijkstraRelax_first_previous(_, _, _, _, _, _)
DijkstraRelax_first_previous(st, edges, k, current, current_dist, vis) ==
  IF k > Len(edges) THEN st
  ELSE LET neighbor == edges[k][1]
           weight == edges[k][2]
           new_dist == current_dist + weight
           st2 == IF neighbor \notin vis /\ new_dist < st.distances[neighbor]
                  THEN [distances |-> [st.distances EXCEPT ![neighbor] = new_dist],
                        previous |->
                          IF st.previous[neighbor] = <<-1, -1>>
                          THEN [st.previous EXCEPT ![neighbor] = current]
                          ELSE st.previous,
                        pq |-> heappush(st.pq, <<new_dist, neighbor>>)]
                  ELSE st
       IN DijkstraRelax_first_previous(st2, edges, k + 1, current,
                                       current_dist, vis)

\* The relaxation without the test `if neighbor in visited: continue`.
RECURSIVE DijkstraRelax_into_visited(_, _, _, _, _, _)
DijkstraRelax_into_visited(st, edges, k, current, current_dist, vis) ==
  IF k > Len(edges) THEN st
  ELSE LET neighbor == edges[k][1]
           weight == edges[k][2]
           new_dist == current_dist + weight
           st2 == IF new_dist < st.distances[neighbor]
                  THEN [distances |-> [st.distances EXCEPT ![neighbor] = new_dist],
                        previous |-> [st.previous EXCEPT ![neighbor] = current],
                        pq |-> heappush(st.pq, <<new_dist, neighbor>>)]
                  ELSE st
       IN DijkstraRelax_into_visited(st2, edges, k + 1, current, current_dist,
                                     vis)

\* -------------------------------------------------------------- dijkstra
\* The `for neighbor, weight in graph.get(current, [])` loop of dijkstra,
\* from the k-th edge on; st holds distances, previous and pq.
RECURSIVE DijkstraRelax(_, _, _, _, _, _)
DijkstraRelax(st, edges, k, current, current_dist, vis) ==
  IF k > Len(edges) THEN st
  ELSE LET neighbor == edges[k][1]
           weight == edges[k][2]
           new_dist == current_dist + weight
           st2 == IF neighbor \notin vis /\ new_dist < st.distances[neighbor]
                  THEN [distances |-> [st.distances EXCEPT ![neighbor] = new_dist],
                        previous |-> [st.previous EXCEPT ![neighbor] = current],
                        pq |-> heappush(st.pq, <<new_dist, neighbor>>)]
                  ELSE st
       IN DijkstraRelax(st2, edges, k + 1, current, current_dist, vis)

\* A test for "no path" that leaves out `and current != start`.
NoPathFound_any_start(prev, start, end) == prev[end] = NoNode

\* Line 190: `previous[current] is None and current != start`, current = end.
NoPathFound(prev, start, end) == prev[end] = NoNode /\ end # start

\* ----------------------------------------------------------------- astar
manhattan_heuristic(node, goal, P_grid, V_grid) ==
  (Abs(node[1] - goal[1]) + Abs(node[2] - goal[2])) * CostScale

\* The integer square root, by Newton's iteration from x.
RECURSIVE NewtonSqrt(_, _)
NewtonSqrt(x, r) ==
  LET next == (r + x \div r) \div 2
  IN IF next >= r THEN r ELSE NewtonSqrt(x, next)

np_sqrt(x) == IF x = 0 THEN 0 ELSE NewtonSqrt(x, x)

\* sqrt(di^2 + dj^2), to 1/1000.
euclidean_heuristic(node, goal, P_grid, V_grid) ==
  LET di == node[1] - goal[1]
      dj == node[2] - goal[2]
  IN (np_sqrt((di * di + dj * dj) * 1000000) * (CostScale \div 200)) \div 5

\* 0.8 * (-n R T ln(V2/V1)) when V1, V2, T > 0, else the euclidean value.
thermodynamic_heuristic(node, goal, P_grid, V_grid) ==
  LET P1 == P_grid[node[1]]
      V1 == V_grid[node[2]]
      V2 == V_grid[goal[2]]
      T == calculate_temperature(P1, V1, n)
  IN IF V1 > 0 /\ V2 > 0 /\ T > 0
     THEN LET W_max == -((nRT(T, n) * np_log(V2, V1)) \div (LnScale \div 200))
          IN (W_max * 4) \div 5
     ELSE euclidean_heuristic(node, goal, P_grid, V_grid)

\* h_func with the euclidean heuristic as the fallback of the selection.
h_func_else_euclidean(heuristic, node, goal, P_grid, V_grid) ==
  IF heuristic = "manhattan" THEN manhattan_heuristic(node, goal, P_grid, V_grid)
  ELSE IF heuristic = "thermodynamic"
       THEN thermodynamic_heuristic(node, goal, P_grid, V_grid)
  ELSE euclidean_heuristic(node, goal, P_grid, V_grid)

\* h_func, as astar selects it from the heuristic key.
h_func(heuristic, node, goal, P_grid, V_grid) ==
  IF heuristic = "manhattan" THEN manhattan_heuristic(node, goal, P_grid, V_grid)
  ELSE IF heuristic = "euclidean"
       THEN euclidean_heuristic(node, goal, P_grid, V_grid)
  ELSE thermodynamic_heuristic(node, goal, P_grid, V_grid)

\* An assignment that leaves the value of a key the dict already holds.
DictSet_keep_first(dict, key, value) ==
  [k \in DOMAIN dict \cup {key} |->
     IF k \in DOMAIN dict THEN dict[k] ELSE value]

\* came_from[neighbor] = current on a dict.
DictSet(dict, key, value) ==
  [k \in DOMAIN dict \cup {key} |-> IF k = key THEN value ELSE dict[k]]

\* The loop of astar pushing every improved neighbour, in the open set or
\* not.
RECURSIVE AstarRelax_push_always(_, _, _, _, _, _, _, _)
AstarRelax_push_always(st, edges, k, current, goal, heuristic, P_grid, V_grid) ==
  IF k > Len(edges) THEN st
  ELSE LET neighbor == edges[k][1]
           weight == edges[k][2]
           tentative_g == st.g_score[current] + weight
           f == tentative_g + h_func(heuristic, neighbor, goal, P_grid, V_grid)
           st2 == IF tentative_g < st.g_score[neighbor]
                  THEN [came_from |-> DictSet(st.came_from, neighbor, current),
                        g_score |-> [st.g_score EXCEPT ![neighbor] = tentative_g],
                        f_score |-> [st.f_score EXCEPT ![neighbor] = f],
                        open_set |->
                          heappush(st.open_set, <<f, tentative_g, neighbor>>),
                        open_set_hash |-> st.open_set_hash \cup {neighbor}]
                  ELSE st
       IN AstarRelax_push_always(st2, edges, k + 1, current, goal, heuristic,
                                 P_grid, V_grid)

\* The `for neighbor, weight in graph.get(current, [])` loop of astar, from
\* the k-th edge on; st holds g_score, f_score, came_from, open_set and
\* open_set_hash.
RECURSIVE AstarRelax(_, _, _, _, _, _, _, _)
AstarRelax(st, edges, k, current, goal, heuristic, P_grid, V_grid) ==
  IF k > Len(edges) THEN st
  ELSE LET neighbor == edges[k][1]
           weight == edges[k][2]
           tentative_g == st.g_score[current] + weight
           f == tentative_g + h_func(heuristic, neighbor, goal, P_grid, V_grid)
           st2 == IF tentative_g < st.g_score[neighbor]
                  THEN [came_from |-> DictSet(st.came_from, neighbor, current),
                        g_score |-> [st.g_score EXCEPT ![neighbor] = tentative_g],
                        f_score |-> [st.f_score EXCEPT ![neighbor] = f],
                        open_set |->
                          IF neighbor \notin st.open_set_hash
                          THEN heappush(st.open_set, <<f, tentative_g, neighbor>>)
                          ELSE st.open_set,
                        open_set_hash |-> st.open_set_hash \cup {neighbor}]
                  ELSE st
       IN AstarRelax(st2, edges, k + 1, current, goal, heuristic, P_grid, V_grid)

\* ----------------------------------------------------- result synthesis
\* calculate_work_general: trapezoidal integral of P over V, 0 for fewer
\* than 2 samples; in CostScale units.
RECURSIVE trapezoid(_, _, _)
trapezoid(P_array, V_array, k) ==
  IF k >= Len(P_array) THEN 0
  ELSE (P_array[k] + P_array[k + 1]) * (V_array[k + 1] - V_array[k])
         * (CostScale \div (2 * Unit * Unit))
       + trapezoid(P_array, V_array, k + 1)

\* The work of the straight line from the first sample to the last.
calculate_work_general_chord(P_array, V_array) ==
  IF Len(P_array) < 2 \/ Len(V_array) < 2 THEN 0
  ELSE (P_array[1] + P_array[Len(P_array)]) * (V_array[Len(V_array)] - V_array[1])
         * (CostScale \div (2 * Unit * Unit))

calculate_work_general(P_array, V_array) ==
  IF Len(P_array) < 2 \/ Len(V_array) < 2 THEN 0
  ELSE trapezoid(P_array, V_array, 1)

\* n Cv (T2 - T1), Cv = Cv2 R / 2; in CostScale units.
calculate_internal_energy_change(P1, V1, P2, V2, gas_type, mol) ==
  LET T1 == calculate_temperature(P1, V1, mol)
      T2 == calculate_temperature(P2, V2, mol)
  IN get_gas_properties(gas_type).Cv2 * (nRT(T2, mol) - nRT(T1, mol))
       * (CostScale \div (2 * Unit * Unit))

\* n Cp (T2 - T1), Cp = Cp2 R / 2; in CostScale units.
calculate_enthalpy_change(P1, V1, P2, V2, gas_type, mol) ==
  LET T1 == calculate_temperature(P1, V1, mol)
      T2 == calculate_temperature(P2, V2, mol)
  IN get_gas_properties(gas_type).Cp2 * (nRT(T2, mol) - nRT(T1, mol))
       * (CostScale \div (2 * Unit * Unit))

\* The first law with the work counted as done on the gas.
calculate_heat_work_on_gas(dU, W) == dU - W

calculate_heat(dU, W) == dU + W

\* dH - T1 * dS, with the start temperature only; in CostScale units.
calculate_gibbs_free_energy_change(P1, V1, P2, V2, gas_type, mol) ==
  LET T1 == calculate_temperature(P1, V1, mol)
      dH == calculate_enthalpy_change(P1, V1, P2, V2, gas_type, mol)
      dS == calculate_entropy_change(P1, V1, P2, V2, gas_type, mol)
  IN dH - ((T1 \div 10) * (dS \div 100)) \div 5

\* (W / W_reversible) * 100, 0 when W_reversible is 0; in percent.
calculate_efficiency(W, W_reversible) ==
  IF W_reversible = 0 THEN 0 ELSE (W * 100) \div W_reversible

\* find_optimal_path returning None.
NoneResult == [none |-> TRUE]

\* Lines 350-399 of find_optimal_path: the PathResult of a found path.
PathResult(a, P_grid, V_grid, nodes, cost) ==
  LET P_array == [k \in 1 .. Len(nodes) |-> P_grid[nodes[k][1]]]
      V_array == [k \in 1 .. Len(nodes) |-> V_grid[nodes[k][2]]]
      W == calculate_work_general(P_array, V_array)
      dU == calculate_internal_energy_change(a.P1, a.V1, a.P2, a.V2, a.gas_type, n)
      T1 == calculate_temperature(a.P1, a.V1, n)
      W_reversible ==
        IF a.V1 > 0 /\ a.V2 > 0
        THEN (nRT(T1, n) * np_log(a.V2, a.V1)) \div (LnScale \div 200)
        ELSE Abs(W)
  IN [P_array |-> P_array,
      V_array |-> V_array,
      W |-> W,
      Q |-> calculate_heat(dU, W),
      dU |-> dU,
      dH |-> calculate_enthalpy_change(a.P1, a.V1, a.P2, a.V2, a.gas_type, n),
      dS |-> calculate_entropy_change(a.P1, a.V1, a.P2, a.V2, a.gas_type, n),
      dG |-> calculate_gibbs_free_energy_change(a.P1, a.V1, a.P2, a.V2,
                                                a.gas_type, n),
      W_reversible |-> W_reversible,
      efficiency |-> calculate_efficiency(W, W_reversible),
      type |-> <<"optimal path", a.algorithm>>,
      algorithm |-> a.algorithm,
      optimization_target |-> a.optimization_target,
      path_nodes |-> nodes,
      total_cost |-> cost,
      gas_type |-> a.gas_type]

\* The synthesis applied to the states of the path's first and last node
\* in place of the requested endpoints.
Synthesize_snapped(a, P_grid, V_grid, nodes, cost) ==
  IF nodes = NonePath \/ Len(nodes) = 0 THEN NoneResult
  ELSE PathResult([a EXCEPT !.P1 = P_grid[nodes[1][1]],
                            !.V1 = V_grid[nodes[1][2]],
                            !.P2 = P_grid[nodes[Len(nodes)][1]],
                            !.V2 = V_grid[nodes[Len(nodes)][2]]],
                  P_grid, V_grid, nodes, cost)

\* Lines 347-399: what find_optimal_path returns for the solver's answer.
Synthesize(a, P_grid, V_grid, nodes, cost) ==
  IF nodes = NonePath \/ Len(nodes) = 0 THEN NoneResult
  ELSE PathResult(a, P_grid, V_grid, nodes, cost)

\* ---------------------------------------------------------- evaluations
\* The divisions and logarithms a function evaluates on given arguments,
\* following its guards and early returns: Div(a, b) is a / b and Log(a, b)
\* is np.log(a / b).  (Divisions by literals are left out.)
Div(a, b) == [op |-> "div", num |-> a, den |-> b]
Log(a, b) == [op |-> "log", num |-> a, den |-> b]

\* The evaluation has a value: the divisor is not 0 and the argument of a
\* logarithm is positive.
Defined(ev) ==
  /\ ev.den # 0
  /\ ev.op = "log" => (ev.num > 0 /\ ev.den > 0) \/ (ev.num < 0 /\ ev.den < 0)

calculate_temperature_evaluates(P, V, mol) ==
  IF mol = 0 \/ R_num = 0 THEN {} ELSE {Div(P * V, mol * R_num)}

calculate_pressure_evaluates(T, V, mol) ==
  IF V = 0 THEN {} ELSE {Div(mol * R_num * T, V)}

calculate_volume_evaluates(T, P, mol) ==
  IF P = 0 THEN {} ELSE {Div(mol * R_num * T, P)}

calculate_efficiency_evaluates(W, W_reversible) ==
  IF W_reversible = 0 THEN {} ELSE {Div(W, W_reversible)}

\* calculate_entropy_change with the guard on T1 and T2 only.
calculate_entropy_change_evaluates_any_volume(P1, V1, P2, V2, gas_type, mol) ==
  LET T1 == calculate_temperature(P1, V1, mol)
      T2 == calculate_temperature(P2, V2, mol)
  IN calculate_temperature_evaluates(P1, V1, mol)
       \cup calculate_temperature_evaluates(P2, V2, mol)
       \cup IF T1 <= 0 \/ T2 <= 0 THEN {}
            ELSE {Log(V2, V1), Log(T2, T1)}

calculate_entropy_change_evaluates(P1, V1, P2, V2, gas_type, mol) ==
  LET T1 == calculate_temperature(P1, V1, mol)
      T2 == calculate_temperature(P2, V2, mol)
  IN calculate_temperature_evaluates(P1, V1, mol)
       \cup calculate_temperature_evaluates(P2, V2, mol)
       \cup IF V1 <= 0 \/ V2 <= 0 \/ T1 <= 0 \/ T2 <= 0 THEN {}
            ELSE {Log(V2, V1), Log(T2, T1)}

\* calculate_internal_energy_change and calculate_enthalpy_change.
calculate_energy_change_evaluates(P1, V1, P2, V2, gas_type, mol) ==
  calculate_temperature_evaluates(P1, V1, mol)
    \cup calculate_temperature_evaluates(P2, V2, mol)

calculate_gibbs_free_energy_change_evaluates(P1, V1, P2, V2, gas_type, mol) ==
  calculate_temperature_evaluates(P1, V1, mol)
    \cup calculate_energy_change_evaluates(P1, V1, P2, V2, gas_type, mol)
    \cup calculate_entropy_change_evaluates(P1, V1, P2, V2, gas_type, mol)

\* What is_valid_edge evaluates: T2 under constraints, T1 when the
\* isothermal test is reached, the entropy change when the entropy check is.
is_valid_edge_evaluates(P1, V1, P2, V2, check_entropy, constraints) ==
  LET T1 == calculate_temperature(P1, V1, n)
      T2 == calculate_temperature(P2, V2, n)
      has(key) == key \in DOMAIN constraints
      constrained == Truthy(constraints)
      limited == /\ constrained
                 /\ \/ has("max_temperature")
                       /\ T2 > constraints["max_temperature"] * Unit * Unit
                    \/ has("min_pressure") /\ P2 < constraints["min_pressure"]
                    \/ has("max_pressure") /\ P2 > constraints["max_pressure"]
      isothermal == /\ constrained /\ ~limited
                    /\ has("isothermal_only") /\ constraints["isothermal_only"]
      rejected == limited \/ (isothermal /\ Abs(T2 - T1) > 10 * Unit * Unit)
  IN IF V2 * 10 < Unit \/ P2 * 10 < Unit THEN {}
     ELSE (IF constrained THEN calculate_temperature_evaluates(P2, V2, n) ELSE {})
       \cup (IF isothermal THEN calculate_temperature_evaluates(P1, V1, n) ELSE {})
       \cup (IF ~rejected /\ check_entropy
             THEN calculate_entropy_change_evaluates(P1, V1, P2, V2,
                                                     "monatomic", n)
             ELSE {})

\* What calculate_edge_weight evaluates under each objective.
calculate_edge_weight_evaluates(P1, V1, P2, V2, optimization_target) ==
  CASE optimization_target = "min_entropy" ->
         calculate_entropy_change_evaluates(P1, V1, P2, V2, "monatomic", n)
    [] optimization_target = "max_efficiency" ->
         LET dV == V2 - V1
             T1 == calculate_temperature(P1, V1, n)
             lnV == IF V2 > 0 /\ V1 > 0 THEN np_log(V2, V1) ELSE 0
             W_rev == nRT(T1, n) * lnV
         IN calculate_temperature_evaluates(P1, V1, n)
              \cup IF T1 > 0 /\ dV # 0
                   THEN (IF V2 > 0 /\ V1 > 0 THEN {Log(V2, V1)} ELSE {})
                          \cup (IF W_rev # 0 THEN {Div((P1 + P2) * dV, W_rev)}
                                ELSE {})
                   ELSE {}
    [] OTHER -> {}

\* What build_graph evaluates for the edges out of one node.
NodeEdges_evaluates(P_grid, V_grid, node, dirs, optimization_target, constraints) ==
  LET grid_size == Cardinality(DOMAIN P_grid)
      P1 == P_grid[node[1]]
      V1 == V_grid[node[2]]
      of(ni, nj) ==
        IF 0 <= ni /\ ni < grid_size /\ 0 <= nj /\ nj < grid_size
        THEN is_valid_edge_evaluates(P1, V1, P_grid[ni], V_grid[nj], TRUE,
                                     constraints)
               \cup IF is_valid_edge(P1, V1, P_grid[ni], V_grid[nj], TRUE,
                                     constraints)
                    THEN calculate_edge_weight_evaluates(
                           P1, V1, P_grid[ni], V_grid[nj], optimization_target)
                    ELSE {}
        ELSE {}
  IN UNION {of(node[1] + dirs[k][1], node[2] + dirs[k][2]) : k \in DOMAIN dirs}

build_graph_evaluates(P_grid, V_grid, allow_diagonal, optimization_target, constraints) ==
  LET grid_size == Cardinality(DOMAIN P_grid)
  IN UNION {NodeEdges_evaluates(P_grid, V_grid, node,
                                directions(allow_diagonal),
                                optimization_target, constraints) :
              node \in (0 .. grid_size - 1) \X (0 .. grid_size - 1)}

thermodynamic_heuristic_evaluates(node, goal, P_grid, V_grid) ==
  LET P1 == P_grid[node[1]]
      V1 == V_grid[node[2]]
      V2 == V_grid[goal[2]]
      T == calculate_temperature(P1, V1, n)
  IN calculate_temperature_evaluates(P1, V1, n)
       \cup IF V1 > 0 /\ V2 > 0 /\ T > 0 THEN {Log(V2, V1)} ELSE {}

h_func_evaluates(heuristic, node, goal, P_grid, V_grid) ==
  IF heuristic \in {"manhattan", "euclidean"} THEN {}
  ELSE thermodynamic_heuristic_evaluates(node, goal, P_grid, V_grid)

\* The synthesis with the reversible work formed without looking at the
\* signs of V1 and V2.
PathResult_evaluates_any_volume(a, W, W_reversible) ==
  calculate_energy_change_evaluates(a.P1, a.V1, a.P2, a.V2, a.gas_type, n)
    \cup calculate_entropy_change_evaluates(a.P1, a.V1, a.P2, a.V2, a.gas_type, n)
    \cup calculate_gibbs_free_energy_change_evaluates(a.P1, a.V1, a.P2, a.V2,
                                                      a.gas_type, n)
    \cup calculate_temperature_evaluates(a.P1, a.V1, n)
    \cup {Log(a.V2, a.V1)}
    \cup calculate_efficiency_evaluates(W, W_reversible)

\* What lines 367-380 of find_optimal_path evaluate for a found path of
\* work W and reversible work W_reversible.
PathResult_evaluates(a, W, W_reversible) ==
  calculate_energy_change_evaluates(a.P1, a.V1, a.P2, a.V2, a.gas_type, n)
    \cup calculate_entropy_change_evaluates(a.P1, a.V1, a.P2, a.V2, a.gas_type, n)
    \cup calculate_gibbs_free_energy_change_evaluates(a.P1, a.V1, a.P2, a.V2,
                                                      a.gas_type, n)
    \cup calculate_temperature_evaluates(a.P1, a.V1, n)
    \cup (IF a.V1 > 0 /\ a.V2 > 0 THEN {Log(a.V2, a.V1)} ELSE {})
    \cup calculate_efficiency_evaluates(W, W_reversible)

\* ------------------------------------------------------------- requests
\* Requested pressures and volumes, in ticks: 0, 5.5 and 12 (P); -1, 5.5
\* and 10 (V).  They include non-physical values, values outside the grid's
\* domain [1, 10] and values midway between two grid samples.
ReqP == {0, (11 * Unit) \div 2, 12 * Unit}
ReqV == {-Unit, (11 * Unit) \div 2, 10 * Unit}

GridSizes == 1 .. MaxGridSize
Targets == {"max_work", "min_entropy", "max_efficiency"}
Heuristics == {"manhattan", "euclidean", "thermodynamic"}
Solvers == {<<"dijkstra", "thermodynamic">>} \cup {<<"astar", h>> : h \in Heuristics}
GasTypes == {"monatomic"}
ConstraintSets ==
  {NoConstraints,
   [max_temperature |-> 600, min_pressure |-> 4 * Unit],
   [max_pressure |-> 7 * Unit, isothermal_only |-> TRUE]}

\* The requested endpoints, solver and gas of a call.
Endpoints ==
  {[P1 |-> p1, V1 |-> v1, P2 |-> p2, V2 |-> v2] :
     p1 \in ReqP, v1 \in ReqV, p2 \in ReqP, v2 \in ReqV}

\* The arguments of a find_optimal_path call.
Request(ep, gs, d, sv, t, c, gt) ==
  [P1 |-> ep.P1, V1 |-> ep.V1, P2 |-> ep.P2, V2 |-> ep.V2, grid_size |-> gs,
   allow_diagonal |-> d, algorithm |-> sv[1], optimization_target |-> t,
   heuristic |-> sv[2], constraints |-> c, gas_type |-> gt]

\* The arguments of a compare_algorithms call.
CompareRequest(ep, gs, gt) ==
  [P1 |-> ep.P1, V1 |-> ep.V1, P2 |-> ep.P2, V2 |-> ep.V2, grid_size |-> gs,
   gas_type |-> gt]

\* The runs of compare_algorithms, in order: label, algorithm, heuristic.
CompareRuns ==
  << <<"dijkstra", "dijkstra", "thermodynamic">>,
     <<"astar_manhattan", "astar", "manhattan">>,
     <<"astar_euclidean", "astar", "euclidean">>,
     <<"astar_thermodynamic", "astar", "thermodynamic">> >>

\* The find_optimal_path call of the k-th run of compare_algorithms; the
\* arguments it does not pass take their defaults.
CompareArgs(req, k) ==
  [P1 |-> req.P1, V1 |-> req.V1, P2 |-> req.P2, V2 |-> req.V2,
   grid_size |-> req.grid_size, allow_diagonal |-> TRUE,
   algorithm |-> CompareRuns[k][2], optimization_target |-> "max_work",
   heuristic |-> CompareRuns[k][3], constraints |-> NoConstraints,
   gas_type |-> req.gas_type]

\* find_optimal_path, lines 325 and 335-338: the grid and the graph.
GridAndGraph(grid_size, allow_diagonal, optimization_target, constraints) ==
  LET grid == create_grid(Unit, 10 * Unit, Unit, 10 * Unit, grid_size)
  IN [P_grid |-> grid.P_grid, V_grid |-> grid.V_grid,
      graph |-> build_graph(grid.P_grid, grid.V_grid, allow_diagonal,
                            optimization_target, constraints)]

\* ---------------------------------------------------------------- state
VARIABLES
  pc,             \* where the program is: idle, dijkstra, dijkstra_path,
                  \* astar, astar_path, done, compared
  args,           \* the arguments of the find_optimal_path call
  P_grid, V_grid, \* create_grid's samples
  graph,          \* build_graph's adjacency lists
  start_node, end_node,
  distances, previous, pq, visited,                       \* dijkstra
  g_score, f_score, came_from, open_set, open_set_hash,   \* astar
  iterations,     \* iterations of astar's pop loop so far
  path, current,  \* path reconstruction of either solver
  path_nodes, total_cost,   \* what the solver returned
  result,         \* what find_optimal_path returned
  cmp,            \* compare_algorithms: its request, run index and results
  first           \* the caller's record of the first call that returned

search_vars == <<args, P_grid, V_grid, graph, start_node, end_node>>
dijkstra_vars == <<distances, previous, pq, visited>>
astar_vars == <<g_score, f_score, came_from, open_set, open_set_hash, iterations>>
return_vars == <<path_nodes, total_cost, result>>
vars == <<pc, search_vars, dijkstra_vars, astar_vars, path, current,
          return_vars, cmp, first>>

Empty == <<>>
NotComparing == [idx |-> 0]
NoArgs == [none |-> TRUE]
NoFirst == [set |-> FALSE]

Init ==
  /\ pc = "idle"
  /\ args = NoArgs
  /\ P_grid = Empty /\ V_grid = Empty /\ graph = Empty
  /\ start_node = NoNode /\ end_node = NoNode
  /\ distances = Empty /\ previous = Empty /\ pq = Empty /\ visited = {}
  /\ g_score = Empty /\ f_score = Empty /\ came_from = Empty
  /\ open_set = Empty /\ open_set_hash = {} /\ iterations = 0
  /\ path = Empty /\ current = NoNode
  /\ path_nodes = Empty /\ total_cost = 0 /\ result = NoneResult
  /\ cmp = NotComparing
  /\ first = NoFirst

\* dijkstra, lines 158-163: a visited set that is not made anew but shared
\* by all calls.
DijkstraInit_shared_visited(g, s) ==
  /\ distances' = [nd \in DOMAIN g |-> IF nd = s THEN 0 ELSE Inf]
  /\ previous' = [nd \in DOMAIN g |-> NoNode]
  /\ pq' = <<<<0, s>>>>
  /\ visited' = visited

\* dijkstra, lines 158-163.
DijkstraInit(g, s) ==
  /\ distances' = [nd \in DOMAIN g |-> IF nd = s THEN 0 ELSE Inf]
  /\ previous' = [nd \in DOMAIN g |-> NoNode]
  /\ pq' = <<<<0, s>>>>
  /\ visited' = {}

\* astar, lines 256-269; h0 is h_func(start, end, P_grid, V_grid).
AstarInit(g, s, h0) ==
  /\ g_score' = [nd \in DOMAIN g |-> IF nd = s THEN 0 ELSE Inf]
  /\ f_score' = [nd \in DOMAIN g |-> IF nd = s THEN h0 ELSE Inf]
  /\ came_from' = Empty
  /\ open_set' = <<<<h0, 0, s>>>>
  /\ open_set_hash' = {s}

\* find_optimal_path, lines 325-345, called with the arguments a: the grid
\* and graph (grid, which is GridAndGraph of a's arguments), the snapped
\* endpoints, and the chosen solver's initialisation (lines 158-163,
\* 256-269).
StartCall(a, grid) ==
  \E s \in {find_nearest_grid_point(a.P1, a.V1, grid.P_grid, grid.V_grid)},
     e \in {find_nearest_grid_point(a.P2, a.V2, grid.P_grid, grid.V_grid)} :
  LET g == grid.graph
      h0 == h_func(a.heuristic, s, e, grid.P_grid, grid.V_grid)
  IN /\ args' = a
     /\ P_grid' = grid.P_grid /\ V_grid' = grid.V_grid
     /\ graph' = g
     /\ start_node' = s /\ end_node' = e
     /\ path' = Empty /\ current' = NoNode
     /\ path_nodes' = Empty /\ total_cost' = 0 /\ result' = NoneResult
     /\ iterations' = 0
     /\ IF a.algorithm = "astar"
        THEN /\ AstarInit(g, s, h0)
             /\ UNCHANGED dijkstra_vars
             /\ pc' = "astar"
        ELSE /\ DijkstraInit(g, s)
             /\ UNCHANGED <<g_score, f_score, came_from, open_set, open_set_hash>>
             /\ pc' = "dijkstra"

\* A grid and graph whose min_entropy weights are those of the entropy
\* change of the given gas.
GridAndGraph_of_gas(grid_size, allow_diagonal, optimization_target, constraints, gas_type) ==
  LET grid == GridAndGraph(grid_size, allow_diagonal, optimization_target, constraints)
      weight(u, edge) ==
        LET dS == calculate_entropy_change(grid.P_grid[u[1]], grid.V_grid[u[2]], grid.P_grid[edge[1][1]], grid.V_grid[edge[1][2]], gas_type, n)
        IN IF optimization_target # "min_entropy" THEN edge[2]
           ELSE IF dS > 0 THEN (dS * (Unit * Unit)) \div (EntScale \div 200)
           ELSE CostScale \div 100
  IN [grid EXCEPT !.graph =
        [u \in DOMAIN grid.graph |->
           [k \in 1 .. Len(grid.graph[u]) |->
              <<grid.graph[u][k][1], weight(u, grid.graph[u][k])>>]]]

\* A call whose graph is weighted with the call's own gas.
CallWith_gas_graph(endpoints, grid_sizes, diagonals, targets, constraint_sets, solvers, gas_types) ==
  /\ pc = "idle"
  /\ \E gs \in grid_sizes, d \in diagonals, t \in targets, c \in constraint_sets :
       \E ep \in endpoints, sv \in solvers, gt \in gas_types :
         StartCall(Request(ep, gs, d, sv, t, c, gt), GridAndGraph_of_gas(gs, d, t, c, gt))
  /\ UNCHANGED <<cmp, first>>

\* A direct call of find_optimal_path, its arguments drawn from the given
\* sets.
CallWith(endpoints, grid_sizes, diagonals, targets, constraint_sets, solvers, gas_types) ==
  /\ pc = "idle"
  /\ \E gs \in grid_sizes, d \in diagonals, t \in targets, c \in constraint_sets :
       \E grid \in {GridAndGraph(gs, d, t, c)} :
         \E ep \in endpoints, sv \in solvers, gt \in gas_types :
           StartCall(Request(ep, gs, d, sv, t, c, gt), grid)
  /\ UNCHANGED <<cmp, first>>

Call(endpoints, grid_sizes, diagonals, targets, constraint_sets) ==
  CallWith(endpoints, grid_sizes, diagonals, targets, constraint_sets, Solvers,
           GasTypes)

FindOptimalPath == Call(Endpoints, GridSizes, BOOLEAN, Targets, ConstraintSets)

\* The solver returns (nodes, cost) and find_optimal_path returns.
Return(nodes, cost) ==
  /\ path_nodes' = nodes
  /\ total_cost' = cost
  /\ result' = Synthesize(args, P_grid, V_grid, nodes, cost)
  /\ pc' = "done"

\* A path left in the order the reconstruction appended it.
Reverse_left_out(seq) == seq

\* path.reverse()
Reverse(seq) == [k \in 1 .. Len(seq) |-> seq[Len(seq) + 1 - k]]

\* One iteration of dijkstra's `while pq` loop (lines 165-185); when the
\* loop ends with it, also lines 188-192.
DijkstraStep ==
  /\ pc = "dijkstra"
  /\ pq # <<>>
  /\ \E popped \in {heappop(pq)} :
     LET current_dist == popped.item[1]
         cur == popped.item[2]
         skip == cur \in visited
         vis == IF skip THEN visited ELSE visited \cup {cur}
     IN
     \E st \in {IF skip \/ cur = end_node
                THEN [distances |-> distances, previous |-> previous,
                      pq |-> popped.heap]
                ELSE DijkstraRelax([distances |-> distances,
                                    previous |-> previous, pq |-> popped.heap],
                                   graph[cur], 1, cur, current_dist, vis)} :
     LET loop_ends == (~skip /\ cur = end_node) \/ st.pq = <<>>
     IN /\ visited' = vis
        /\ distances' = st.distances
        /\ previous' = st.previous
        /\ pq' = st.pq
        /\ IF ~loop_ends
           THEN /\ pc' = "dijkstra"
                /\ UNCHANGED <<path, current, return_vars>>
           ELSE IF NoPathFound(st.previous, start_node, end_node)
           THEN /\ Return(NonePath, Inf)
                /\ path' = <<>> /\ current' = end_node
           ELSE /\ pc' = "dijkstra_path"
                /\ path' = <<>> /\ current' = end_node
                /\ UNCHANGED return_vars
  /\ UNCHANGED <<search_vars, astar_vars, cmp, first>>

\* One iteration of `while current is not None` (lines 194-196); after the
\* last one, lines 198-199.
DijkstraPathStep ==
  /\ pc = "dijkstra_path"
  /\ current # NoNode
  /\ path' = Append(path, current)
  /\ current' = previous[current]
  /\ IF previous[current] = NoNode
     THEN Return(Reverse(Append(path, current)), distances[end_node])
     ELSE pc' = "dijkstra_path" /\ UNCHANGED return_vars
  /\ UNCHANGED <<search_vars, dijkstra_vars, astar_vars, cmp, first>>

\* One iteration of astar's `while open_set` loop (lines 271-299); when the
\* loop ends with it, also line 301.
AstarStep ==
  /\ pc = "astar"
  /\ open_set # <<>>
  /\ iterations < MaxPops
  /\ \E popped \in {heappop(open_set)} :
     LET cur == popped.item[3]
         skip == cur \notin open_set_hash
         st0 == [came_from |-> came_from, g_score |-> g_score,
                 f_score |-> f_score, open_set |-> popped.heap,
                 open_set_hash |-> open_set_hash \ {cur}]
     IN
     \E st \in {IF skip \/ cur = end_node THEN st0
                ELSE AstarRelax(st0, graph[cur], 1, cur, end_node,
                                args.heuristic, P_grid, V_grid)} :
        /\ iterations' = iterations + 1
        /\ came_from' = st.came_from
        /\ g_score' = st.g_score
        /\ f_score' = st.f_score
        /\ open_set' = st.open_set
        /\ open_set_hash' = st.open_set_hash
        /\ IF ~skip /\ cur = end_node
           THEN /\ pc' = "astar_path"
                /\ path' = <<>> /\ current' = cur
                /\ UNCHANGED return_vars
           ELSE IF st.open_set = <<>>
           THEN /\ Return(NonePath, Inf)
                /\ UNCHANGED <<path, current>>
           ELSE /\ pc' = "astar"
                /\ UNCHANGED <<path, current, return_vars>>
  /\ UNCHANGED <<search_vars, dijkstra_vars, cmp, first>>

\* One iteration of `while current in came_from` (lines 281-283), or, when
\* the loop ends, lines 284-286.  A came_from chain longer than the graph
\* has nodes never ends; the model follows it no further.
AstarPathStep ==
  /\ pc = "astar_path"
  /\ Len(path) <= Cardinality(DOMAIN graph)
  /\ IF current \in DOMAIN came_from
     THEN /\ path' = Append(path, current)
          /\ current' = came_from[current]
          /\ pc' = "astar_path"
          /\ UNCHANGED return_vars
     ELSE /\ path' = Reverse(Append(path, start_node))
          /\ current' = current
          /\ Return(Reverse(Append(path, start_node)), g_score[end_node])
  /\ UNCHANGED <<search_vars, dijkstra_vars, astar_vars, cmp, first>>

\* compare_algorithms, lines 408-414, its arguments drawn from the given
\* sets: the dijkstra run starts.
Compare(endpoints, grid_sizes) ==
  /\ pc = "idle"
  /\ \E gs \in grid_sizes :
       \E grid \in {GridAndGraph(gs, TRUE, "max_work", NoConstraints)} :
         \E ep \in endpoints, gt \in GasTypes :
           LET req == CompareRequest(ep, gs, gt)
           IN /\ cmp' = [idx |-> 1, req |-> req, results |-> Empty]
              /\ StartCall(CompareArgs(req, 1), grid)
  /\ UNCHANGED first

CompareAlgorithms == Compare(Endpoints, GridSizes)

\* compare_algorithms, lines 415-434: the run that has returned is stored
\* under its label with its elapsed time, and the next run starts or the
\* mapping is returned.
CompareNext ==
  /\ pc = "done"
  /\ cmp.idx >= 1
  /\ \E elapsed \in 0 .. MaxElapsed :
       LET stored == DictSet(cmp.results, CompareRuns[cmp.idx][1],
                             [result |-> result, time |-> elapsed])
       IN IF cmp.idx < Len(CompareRuns)
          THEN /\ cmp' = [cmp EXCEPT !.idx = cmp.idx + 1, !.results = stored]
               /\ \E next \in {CompareArgs(cmp.req, cmp.idx + 1)} :
                  \E grid \in {GridAndGraph(next.grid_size, next.allow_diagonal,
                                            next.optimization_target,
                                            next.constraints)} :
                    StartCall(next, grid)
          ELSE /\ cmp' = [cmp EXCEPT !.results = stored]
               /\ pc' = "compared"
               /\ UNCHANGED <<search_vars, dijkstra_vars, astar_vars, path,
                              current, return_vars>>
  /\ UNCHANGED first

Next ==
  \/ FindOptimalPath
  \/ DijkstraStep
  \/ DijkstraPathStep
  \/ AstarStep
  \/ AstarPathStep
  \/ CompareAlgorithms
  \/ CompareNext

Spec == Init /\ [][Next]_vars

\* ------------------------------------------------------ repeated calls
\* A caller that calls again and again, and keeps the arguments and the
\* result of the first find_optimal_path call it made itself.  The calls
\* use a 2 x 2 grid with diagonal steps and no constraints, between the
\* requested states (0, -1) and (12, 10), in either direction.
AgainEndpoints ==
  {ep \in Endpoints :
     \/ ep.P1 = 0 /\ ep.V1 = -Unit /\ ep.P2 = 12 * Unit /\ ep.V2 = 10 * Unit
     \/ ep.P1 = 12 * Unit /\ ep.V1 = 10 * Unit /\ ep.P2 = 0 /\ ep.V2 = -Unit}

CallAgain ==
  Call(AgainEndpoints, {2}, {TRUE}, {"max_work", "min_entropy"}, {NoConstraints})

CompareAgain == Compare(AgainEndpoints, {2})

\* The caller takes what find_optimal_path or compare_algorithms returned.
\* The solvers' locals are garbage from here on.
CallReturns ==
  /\ \/ pc = "done" /\ cmp.idx = 0
     \/ pc = "compared"
  /\ pc' = "idle"
  /\ cmp' = NotComparing
  /\ first' = IF ~first.set /\ pc = "done"
              THEN [set |-> TRUE, args |-> args, result |-> result]
              ELSE first
  /\ UNCHANGED <<search_vars, dijkstra_vars, astar_vars, path, current,
                 return_vars>>

NextCalls ==
  \/ CallAgain
  \/ CompareAgain
  \/ DijkstraStep
  \/ DijkstraPathStep
  \/ AstarStep
  \/ AstarPathStep
  \/ CompareNext
  \/ CallReturns

SpecCalls == Init /\ [][NextCalls]_vars

\* --------------------------------------------- find_nearest_grid_point
\* find_nearest_grid_point(P, V, P_grid, V_grid) on the grid of create_grid,
\* for requested values from -1.0 to 12.0 in quarters.
NearestValues == {k * (Unit \div 4) : k \in -4 .. 48}

InitNearest ==
  /\ pc = "nearest"
  /\ \E P \in NearestValues, V \in NearestValues, gs \in GridSizes :
       LET grid == create_grid(Unit, 10 * Unit, Unit, 10 * Unit, gs)
       IN /\ args = [P |-> P, V |-> V, grid_size |-> gs]
          /\ P_grid = grid.P_grid /\ V_grid = grid.V_grid
  /\ graph = Empty
  /\ start_node = NoNode /\ end_node = NoNode
  /\ distances = Empty /\ previous = Empty /\ pq = Empty /\ visited = {}
  /\ g_score = Empty /\ f_score = Empty /\ came_from = Empty
  /\ open_set = Empty /\ open_set_hash = {} /\ iterations = 0
  /\ path = Empty /\ current = NoNode
  /\ path_nodes = Empty /\ total_cost = 0 /\ result = NoneResult
  /\ cmp = NotComparing
  /\ first = NoFirst

Nearest ==
  /\ pc = "nearest"
  /\ start_node' = find_nearest_grid_point(args.P, args.V, P_grid, V_grid)
  /\ pc' = "nearest_done"
  /\ UNCHANGED <<args, P_grid, V_grid, graph, end_node, dijkstra_vars,
                 astar_vars, path, current, return_vars, cmp, first>>

SpecNearest == InitNearest /\ [][Nearest]_vars

\* ------------------------------------------------- calls with other keys
\* Calls whose optimization target, algorithm, heuristic and gas type are
\* keys the code does not list, next to the calls with the listed keys.
KeyEndpoints ==
  {[P1 |-> 12 * Unit, V1 |-> Unit, P2 |-> (11 * Unit) \div 2, V2 |-> 10 * Unit],
   [P1 |-> Unit, V1 |-> 10 * Unit, P2 |-> 12 * Unit, V2 |-> (11 * Unit) \div 2]}
KeyGridSizes == {3}
KeyTargets == {"max_work", "min_time"}
KeySolvers ==
  {<<"dijkstra", "thermodynamic">>, <<"bfs", "thermodynamic">>,
   <<"astar", "thermodynamic">>, <<"astar", "octile">>}
KeyGasTypes == {"monatomic", "plasma"}

CallKeys ==
  CallWith(KeyEndpoints, KeyGridSizes, {TRUE}, KeyTargets, {NoConstraints},
           KeySolvers, KeyGasTypes)

NextKeys ==
  \/ CallKeys
  \/ DijkstraStep
  \/ DijkstraPathStep
  \/ AstarStep
  \/ AstarPathStep
  \/ CallReturns

SpecKeys == Init /\ [][NextKeys]_vars

\* ------------------------------------------------ calls with other gases
\* Repeated calls over two requests (one outside the grid's domain and
\* between its samples, one non-physical) and two gas types: unconstrained
\* dijkstra calls on the 2 x 2 grid under either objective, and astar
\* min_entropy calls on the 3 x 3 grid with and without a constraint.
GasEndpoints ==
  {[P1 |-> 12 * Unit, V1 |-> (11 * Unit) \div 2, P2 |-> (11 * Unit) \div 2,
    V2 |-> 10 * Unit],
   [P1 |-> 0, V1 |-> -Unit, P2 |-> 12 * Unit, V2 |-> 10 * Unit]}
GasTargets == {"max_work", "min_entropy"}
GasConstraintSets == {NoConstraints, [max_temperature |-> 1300]}
GasKinds == {"monatomic", "diatomic", "polyatomic"}

CallGas ==
  \/ CallWith(GasEndpoints, {2}, {TRUE}, GasTargets, {NoConstraints},
              {<<"dijkstra", "thermodynamic">>}, GasKinds)
  \/ CallWith(GasEndpoints, {3}, {TRUE}, {"min_entropy"}, GasConstraintSets,
              {<<"astar", "manhattan">>}, GasKinds)

NextGas ==
  \/ CallGas
  \/ DijkstraStep
  \/ DijkstraPathStep
  \/ AstarStep
  \/ AstarPathStep
  \/ CallReturns

SpecGas == Init /\ [][NextGas]_vars

\* --------------------------------------------- the state-model functions
\* The functions of thermodynamics.py applied to degenerate and ordinary
\* arguments: pressures and volumes of -1, 0 and 5, 0 or 1 mol, 0 K or
\* 300 K, works of 0 and 1, and arrays of 0 .. MaxSamples samples (of the
\* same length when both have 2 or more, as find_optimal_path hands them).
StateValues == {-Unit, 0, 5 * Unit}
SampleLengths ==
  {l \in (0 .. MaxSamples) \X (0 .. MaxSamples) :
     l[1] < 2 \/ l[2] < 2 \/ l[1] = l[2]}
StateArgs ==
  {[P1 |-> p1, V1 |-> v1, P2 |-> p2, V2 |-> v2, mol |-> mol, T |-> T, W |-> W,
    W_reversible |-> W_rev,
    P_array |-> [k \in 1 .. l[1] |-> k * Unit],
    V_array |-> [k \in 1 .. l[2] |-> k * k * Unit]] :
     p1 \in StateValues, v1 \in StateValues, p2 \in StateValues,
     v2 \in StateValues, mol \in {0, 1}, T \in {0, 300 * Unit * Unit},
     W \in {0, CostScale}, W_rev \in {-CostScale, 0, CostScale},
     l \in SampleLengths}

InitState ==
  /\ pc = "state"
  /\ args \in StateArgs
  /\ P_grid = Empty /\ V_grid = Empty /\ graph = Empty
  /\ start_node = NoNode /\ end_node = NoNode
  /\ distances = Empty /\ previous = Empty /\ pq = Empty /\ visited = {}
  /\ g_score = Empty /\ f_score = Empty /\ came_from = Empty
  /\ open_set = Empty /\ open_set_hash = {} /\ iterations = 0
  /\ path = Empty /\ current = NoNode
  /\ path_nodes = Empty /\ total_cost = 0 /\ result = NoneResult
  /\ cmp = NotComparing
  /\ first = NoFirst

\* Each function is called once on the drawn arguments.
ApplyStateModel ==
  /\ pc = "state"
  /\ result' =
       [temperature |-> calculate_temperature(args.P1, args.V1, args.mol),
        pressure |-> calculate_pressure(args.T, args.V1, args.mol),
        volume |-> calculate_volume(args.T, args.P1, args.mol),
        efficiency |-> calculate_efficiency(args.W, args.W_reversible),
        W |-> calculate_work_general(args.P_array, args.V_array),
        dS |-> calculate_entropy_change(args.P1, args.V1, args.P2, args.V2,
                                        "monatomic", args.mol),
        evaluates |->
          calculate_temperature_evaluates(args.P1, args.V1, args.mol)
            \cup calculate_pressure_evaluates(args.T, args.V1, args.mol)
            \cup calculate_volume_evaluates(args.T, args.P1, args.mol)
            \cup calculate_efficiency_evaluates(args.W, args.W_reversible)
            \cup calculate_entropy_change_evaluates(args.P1, args.V1, args.P2,
                                                    args.V2, "monatomic",
                                                    args.mol)]
  /\ pc' = "state_done"
  /\ UNCHANGED <<args, search_vars, dijkstra_vars, astar_vars, path, current,
                 path_nodes, total_cost, cmp, first>>

SpecState == InitState /\ [][ApplyStateModel]_vars

\* ------------------------------------------- astar on a caller's graph
\* astar(graph, start, end, P_grid, V_grid, heuristic) takes any graph.
\* The graphs drawn here have the nodes (i, j) of a 3 x 2 block, an edge in
\* both directions between nodes one step apart, listed per node in the
\* order of build_graph's four directions, and one weight per pair of
\* neighbours, 1.0, 3.0 or 10.0.
AnyNodes == (0 .. 2) \X (0 .. 1)

AnyPairs ==
  {{p[1], p[2]} :
     p \in {q \in AnyNodes \X AnyNodes :
              Abs(q[1][1] - q[2][1]) + Abs(q[1][2] - q[2][2]) = 1}}

AnyWeights == {CostScale, 3 * CostScale, 10 * CostScale}

RECURSIVE AnyEdges(_, _, _)
AnyEdges(w, node, k) ==
  LET dirs == directions(FALSE)
  IN IF k > Len(dirs) THEN <<>>
     ELSE LET nb == <<node[1] + dirs[k][1], node[2] + dirs[k][2]>>
          IN (IF nb \in AnyNodes THEN << <<nb, w[{node, nb}]>> >> ELSE <<>>)
               \o AnyEdges(w, node, k + 1)

AnyGraph(w) == [node \in AnyNodes |-> AnyEdges(w, node, 1)]

\* The call astar(AnyGraph(w), (0, 0), (2, 0), P_grid, V_grid, heuristic),
\* with the grid samples of a 3 x 3 grid.
AstarOnGraph ==
  /\ pc = "idle"
  /\ \E w \in [AnyPairs -> AnyWeights], h \in {"manhattan", "euclidean"} :
       LET grid == create_grid(Unit, 10 * Unit, Unit, 10 * Unit, 3)
           ep == [P1 |-> grid.P_grid[0], V1 |-> grid.V_grid[0],
                  P2 |-> grid.P_grid[2], V2 |-> grid.V_grid[0]]
       IN StartCall(Request(ep, 3, FALSE, <<"astar", h>>, "min_entropy",
                            NoConstraints, "monatomic"),
                    [P_grid |-> grid.P_grid, V_grid |-> grid.V_grid,
                     graph |-> AnyGraph(w)])
  /\ UNCHANGED <<cmp, first>>

NextAstarAny ==
  \/ AstarOnGraph
  \/ AstarStep
  \/ AstarPathStep

SpecAstarAny == Init /\ [][NextAstarAny]_vars

\* ------------------------------------------------- dijkstra on any graph
\* Weights of either sign: an undirected edge of negative weight is a
\* negative-cost cycle.
AnySignedWeights == {-3 * CostScale, CostScale, 4 * CostScale}

\* The call dijkstra(AnyGraph(w), (0, 0), (2, 0)).
DijkstraOnGraph ==
  /\ pc = "idle"
  /\ \E w \in [AnyPairs -> AnySignedWeights] :
       LET grid == create_grid(Unit, 10 * Unit, Unit, 10 * Unit, 3)
           ep == [P1 |-> grid.P_grid[0], V1 |-> grid.V_grid[0],
                  P2 |-> grid.P_grid[2], V2 |-> grid.V_grid[0]]
       IN StartCall(Request(ep, 3, FALSE, <<"dijkstra", "thermodynamic">>,
                            "max_work", NoConstraints, "monatomic"),
                    [P_grid |-> grid.P_grid, V_grid |-> grid.V_grid,
                     graph |-> AnyGraph(w)])
  /\ UNCHANGED <<cmp, first>>

NextDijkstraAny ==
  \/ DijkstraOnGraph
  \/ DijkstraStep
  \/ DijkstraPathStep

SpecDijkstraAny == Init /\ [][NextDijkstraAny]_vars

\* ------------------------------------------------------------ path costs
Min(S) == CHOOSE x \in S : \A y \in S : x <= y

\* The edges of g that end at v, as <<source, weight>>.
EdgesInto(g, v) ==
  UNION {{<<u, g[u][k][2]>> : k \in {m \in 1 .. Len(g[u]) : g[u][m][1] = v}} :
           u \in DOMAIN g}

\* One more edge: dist[v] is the least cost of a path from the source to v
\* of at most r edges; the result is that of at most r + 1 edges.
RelaxAll(g, dist) ==
  [v \in DOMAIN g |->
     Min({dist[v]} \cup {dist[e[1]] + e[2] :
                           e \in {x \in EdgesInto(g, v) : dist[x[1]] < Inf}})] @@ <<>>

RECURSIVE PathCosts(_, _, _)
PathCosts(g, dist, rounds) ==
  IF rounds = 0 THEN dist ELSE PathCosts(g, RelaxAll(g, dist), rounds - 1)

\* The least sum of edge weights over the paths of g from s to e that repeat
\* no node (under non-negative weights, over all paths); Inf if there is none.
MinCost(g, s, e) ==
  PathCosts(g, [v \in DOMAIN g |-> IF v = s THEN 0 ELSE Inf],
            Cardinality(DOMAIN g) - 1)[e]

Reachable(g, s, e) == MinCost(g, s, e) < Inf

\* find_optimal_path has returned from a call with this solver and objective.
Returned(algorithm, target) ==
  /\ pc = "done"
  /\ args.algorithm = algorithm
  /\ args.optimization_target = target

\* ------------------------------------------------------------------ C1
\* C1: with the min_entropy objective, whenever dijkstra returns a path from
\* the start node to the goal node, the returned total cost is the least sum
\* of edge weights over all start-to-goal paths of the built graph.
C1_DijkstraMinEntropyOptimal ==
  (Returned("dijkstra", "min_entropy") /\ path_nodes # NonePath)
    => total_cost = MinCost(graph, start_node, end_node)

\* dijkstra has returned a path of three or more nodes under min_entropy
\* although a first edge out of the start leads only to costlier routes.
C1_Witness ==
  /\ Returned("dijkstra", "min_entropy")
  /\ path_nodes # NonePath
  /\ Len(path_nodes) >= 3
  /\ \E k \in 1 .. Len(graph[start_node]) :
       LET rest == MinCost(graph, graph[start_node][k][1], end_node)
       IN rest < Inf /\ graph[start_node][k][2] + rest > total_cost

\* ------------------------------------------------------------------ C2
NonNegative(g) ==
  \A u \in DOMAIN g : \A k \in 1 .. Len(g[u]) : g[u][k][2] >= 0

\* The heuristic never overestimates the least remaining cost to the goal.
Admissible(g, goal, heuristic) ==
  \A node \in DOMAIN g :
    h_func(heuristic, node, goal, P_grid, V_grid) <= MinCost(g, node, goal)

\* C2: on any graph with non-negative edge weights and with a heuristic
\* that never overestimates the remaining cost to the goal, the total cost
\* astar returns is the least start-to-goal path cost.
C2_AstarOptimalWhenAdmissible ==
  (/\ pc = "done"
   /\ args.algorithm = "astar"
   /\ path_nodes # NonePath
   /\ NonNegative(graph)
   /\ Admissible(graph, end_node, args.heuristic))
    => total_cost = MinCost(graph, start_node, end_node)

\* ------------------------------------------------------------------ C3
\* What a returned call answers: no path exactly when the goal node cannot
\* be reached from the start node through edges of the built graph.
NullIffUnreachable ==
  pc = "done" =>
    /\ path_nodes = NonePath <=> ~Reachable(graph, start_node, end_node)
    /\ path_nodes = NonePath => total_cost = Inf /\ result = NoneResult
    /\ path_nodes # NonePath => result # NoneResult

\* astar's path reconstruction has not appended more nodes than the graph
\* has.  Once it has, it has appended some node twice: came_from, which the
\* reconstruction only reads, holds a cycle, and `while current in
\* came_from` appends to path for ever.
ReconstructionEnds ==
  pc = "astar_path" => Len(path) <= Cardinality(DOMAIN graph)

\* C3: for both solvers and every objective, heuristic and constraint set,
\* the solver returns (None, +infinity) and find_optimal_path returns null
\* if the goal node is not reachable from the start node, and a non-null
\* path if it is; the call returns in either case.
C3_NullIffUnreachable == NullIffUnreachable /\ ReconstructionEnds

\* ------------------------------------------------------------------ C4
\* C4: find_optimal_path keeps no state between calls: a call with the
\* arguments of an earlier call, whatever calls (compare_algorithms runs
\* included) were made in between, returns the result the earlier call
\* returned (path_nodes, total_cost, W, Q, dU, dH, dS, dG, W_reversible,
\* efficiency and the rest of the mapping, or null).
C4_SameArgumentsSameResult ==
  (pc = "done" /\ first.set /\ args = first.args) => result = first.result

\* The astar_thermodynamic run of a comparison has returned a path of two
\* or more nodes, with the arguments of the caller's first call.
C4_Witness ==
  /\ pc = "done"
  /\ first.set
  /\ args = first.args
  /\ cmp.idx = Len(CompareRuns)
  /\ result # NoneResult
  /\ Len(path_nodes) >= 2

\* ------------------------------------------------------------------ C5
\* C5: when the requested start and goal states snap to the same grid
\* node, find_optimal_path returns, for either algorithm, any objective and
\* any heuristic, a non-null result whose path_nodes is that one node and
\* whose total_cost is 0; on its way there the solver pops once and
\* reconstructs nothing.
C5_SameNodeTrivialPath ==
  (args # NoArgs /\ pc # "idle" /\ pc # "compared" /\ start_node = end_node) =>
    /\ pc = "done" =>
         /\ result # NoneResult
         /\ result.path_nodes = <<start_node>>
         /\ result.total_cost = 0
    /\ pc = "astar" => iterations = 0
    /\ pc = "dijkstra" => visited = {}
    /\ pc \in {"astar_path", "dijkstra_path"} => path = <<>>

\* An astar call under max_efficiency whose requested pressures differ has
\* returned, start and goal having snapped to one node of a grid of four
\* or more nodes.
C5_Witness ==
  /\ Returned("astar", "max_efficiency")
  /\ start_node = end_node
  /\ args.P1 # args.P2
  /\ args.grid_size >= 2
  /\ result # NoneResult

\* ------------------------------------------------------------------ C6
\* node is a grid node nearest to the requested state (P, V), per axis.
IsNearest(node, P, V) ==
  /\ node[1] \in DOMAIN P_grid /\ node[2] \in DOMAIN V_grid
  /\ \A k \in DOMAIN P_grid : Abs(P_grid[node[1]] - P) <= Abs(P_grid[k] - P)
  /\ \A k \in DOMAIN V_grid : Abs(V_grid[node[2]] - V) <= Abs(V_grid[k] - V)

\* C6: in every non-null result of find_optimal_path the first element of
\* path_nodes is the grid node nearest to the requested start state and the
\* last element the grid node nearest to the requested goal state, and
\* P_array and V_array begin and end at those nodes' grid values.
C6_PathEndsAtNearestNodes ==
  (pc = "done" /\ result # NoneResult) =>
    LET nodes == result.path_nodes
        last == Len(nodes)
    IN /\ last >= 1
       /\ nodes = path_nodes
       /\ IsNearest(nodes[1], args.P1, args.V1)
       /\ IsNearest(nodes[last], args.P2, args.V2)
       /\ nodes[1] = start_node /\ nodes[last] = end_node
       /\ Len(result.P_array) = last /\ Len(result.V_array) = last
       /\ result.P_array[1] = P_grid[nodes[1][1]]
       /\ result.V_array[1] = V_grid[nodes[1][2]]
       /\ result.P_array[last] = P_grid[nodes[last][1]]
       /\ result.V_array[last] = V_grid[nodes[last][2]]

\* A call has returned a path of three or more nodes whose requested start
\* pressure is no grid sample.
C6_Witness ==
  /\ pc = "done"
  /\ result # NoneResult
  /\ Len(result.path_nodes) >= 3
  /\ \A k \in DOMAIN P_grid : P_grid[k] # args.P1

\* ------------------------------------------------------------------ C7
\* C7: for every requested (P, V), values outside the grid's domain
\* included, find_nearest_grid_point returns (i, j) with 0 <= i, j <
\* grid_size, where i minimises |P_grid[i] - P| and j minimises
\* |V_grid[j] - V|, each the lowest such index.
C7_NearestGridPoint ==
  pc = "nearest_done" =>
    LET i == start_node[1]
        j == start_node[2]
        idx == 0 .. args.grid_size - 1
    IN /\ i \in idx /\ j \in idx
       /\ \A k \in idx : Abs(P_grid[i] - args.P) <= Abs(P_grid[k] - args.P)
       /\ \A k \in idx : Abs(V_grid[j] - args.V) <= Abs(V_grid[k] - args.V)
       /\ \A k \in idx : Abs(P_grid[k] - args.P) = Abs(P_grid[i] - args.P) => i <= k
       /\ \A k \in idx : Abs(V_grid[k] - args.V) = Abs(V_grid[j] - args.V) => j <= k

\* The nearest node has been found for a pressure below the grid's domain
\* and a volume midway between two samples, neither of them the first.
C7_Witness ==
  /\ pc = "nearest_done"
  /\ args.P < P_grid[0]
  /\ \E k \in DOMAIN V_grid :
       /\ k >= 1 /\ k + 1 \in DOMAIN V_grid
       /\ args.V - V_grid[k] = V_grid[k + 1] - args.V
       /\ start_node = <<0, k>>

\* ------------------------------------------------------------ C8, C9
\* A call has just built its graph and no solver step has been taken.
GraphBuilt ==
  /\ pc \in {"dijkstra", "astar"}
  /\ visited = {} /\ iterations = 0

Temperature(node) == calculate_temperature(P_grid[node[1]], V_grid[node[2]], n)

\* The constraints' predicates on the step from node u to node v.
MeetsConstraints(u, v, constraints) ==
  LET P == P_grid[v[1]]
      V == V_grid[v[2]]
      has(key) == key \in DOMAIN constraints
  IN /\ 10 * V >= Unit /\ 10 * P >= Unit
     /\ has("max_temperature")
          => Temperature(v) <= constraints["max_temperature"] * Unit * Unit
     /\ has("min_pressure") => P >= constraints["min_pressure"]
     /\ has("max_pressure") => P <= constraints["max_pressure"]
     /\ (has("isothermal_only") /\ constraints["isothermal_only"])
          => Abs(Temperature(v) - Temperature(u)) <= 10 * Unit * Unit

\* C8: in a graph built with constraints every edge's target node has
\* V >= 0.1 and P >= 0.1, a temperature of at most max_temperature and
\* min_pressure <= P <= max_pressure, and with isothermal_only the
\* temperatures of the edge's two nodes differ by at most 10; every node
\* after the first of a returned path satisfies the same, with the node
\* before it.
C8_ConstraintsOnEdgesAndPaths ==
  /\ GraphBuilt =>
       \A u \in DOMAIN graph : \A k \in 1 .. Len(graph[u]) :
         MeetsConstraints(u, graph[u][k][1], args.constraints)
  /\ (pc = "done" /\ result # NoneResult) =>
       \A m \in 2 .. Len(path_nodes) :
         MeetsConstraints(path_nodes[m - 1], path_nodes[m], args.constraints)

\* A call constrained by max_temperature and min_pressure has returned a
\* path of three or more nodes that starts at a node under the pressure
\* limit, on a grid that has a node over the temperature limit.
C8_Witness ==
  /\ pc = "done"
  /\ result # NoneResult
  /\ Len(path_nodes) >= 3
  /\ "min_pressure" \in DOMAIN args.constraints
  /\ P_grid[start_node[1]] < args.constraints["min_pressure"]
  /\ \E u \in DOMAIN graph :
       Temperature(u) > args.constraints["max_temperature"] * Unit * Unit

\* entropyChange(u -> v) >= -0.1
SecondLaw(u, v) ==
  calculate_entropy_change(P_grid[u[1]], V_grid[u[2]],
                           P_grid[v[1]], V_grid[v[2]], "monatomic", n)
    >= -(EntScale \div 10)

\* C9: every edge of every built graph, with or without constraints, has
\* entropyChange(source -> target) >= -0.1, and so has every pair of
\* consecutive nodes of a returned path.
C9_SecondLawOnEdgesAndPaths ==
  /\ GraphBuilt =>
       \A u \in DOMAIN graph : \A k \in 1 .. Len(graph[u]) :
         SecondLaw(u, graph[u][k][1])
  /\ (pc = "done" /\ result # NoneResult) =>
       \A m \in 2 .. Len(path_nodes) : SecondLaw(path_nodes[m - 1], path_nodes[m])

\* An unconstrained call has returned a path of three or more nodes whose
\* reverse the second law forbids at its last step.
C9_Witness ==
  /\ pc = "done"
  /\ result # NoneResult
  /\ args.constraints = NoConstraints
  /\ Len(path_nodes) >= 3
  /\ ~SecondLaw(path_nodes[Len(path_nodes)], path_nodes[Len(path_nodes) - 1])

\* ----------------------------------------------------------------- C10
CompareLabels ==
  {"dijkstra", "astar_manhattan", "astar_euclidean", "astar_thermodynamic"}

\* What a comparison that has returned holds, and what its runs are called
\* with.
CompareMapping ==
  /\ pc = "compared" =>
       /\ DOMAIN cmp.results = CompareLabels
       /\ \A label \in CompareLabels :
            DOMAIN cmp.results[label] = {"result", "time"}
  /\ (cmp.idx >= 1 /\ pc # "compared") =>
       /\ args.P1 = cmp.req.P1 /\ args.V1 = cmp.req.V1
       /\ args.P2 = cmp.req.P2 /\ args.V2 = cmp.req.V2
       /\ args.grid_size = cmp.req.grid_size
       /\ args.gas_type = cmp.req.gas_type
       /\ DOMAIN cmp.results = {CompareRuns[k][1] : k \in 1 .. cmp.idx - 1}

\* C10: compare_algorithms always returns a mapping with exactly the four
\* labels dijkstra, astar_manhattan, astar_euclidean and
\* astar_thermodynamic, each holding a result and an elapsed time, all four
\* run on the same endpoints, grid size and gas type; none of its runs
\* keeps it from returning.
C10_CompareReturnsAllFour ==
  /\ CompareMapping
  /\ cmp.idx >= 1 => ReconstructionEnds
\* ----------------------------------------------------------------- C11
\* The arguments of a call with every key replaced by the key whose branch
\* the code takes for it.
ListedKeys(a) ==
  [a EXCEPT !.optimization_target = IF @ \in Targets THEN @ ELSE "max_work",
            !.algorithm = IF @ = "astar" THEN @ ELSE "dijkstra",
            !.heuristic = IF @ \in Heuristics THEN @ ELSE "thermodynamic",
            !.gas_type = IF @ \in DOMAIN GAS_TYPES THEN @ ELSE "monatomic"]

\* A result without the fields that echo the keys of the call.
Computed(r) ==
  IF r = NoneResult THEN r
  ELSE [f \in DOMAIN r \ {"type", "algorithm", "optimization_target", "gas_type"}
          |-> r[f]]

\* C11: an unlisted optimization-target key gives every edge the max_work
\* weight; with an unlisted heuristic key astar queues every node under
\* g plus the thermodynamic heuristic; an algorithm key other than astar
\* runs dijkstra; and a call with unlisted keys (an unknown gas type among
\* them) returns, apart from the echoed keys, what the call with max_work,
\* dijkstra, thermodynamic and monatomic in their places returns.
C11_UnlistedKeysFallBack ==
  /\ (GraphBuilt /\ args.optimization_target \notin Targets) =>
       graph = build_graph(P_grid, V_grid, args.allow_diagonal, "max_work",
                           args.constraints)
  /\ (pc = "astar" /\ args.heuristic \notin Heuristics) =>
       \A k \in 1 .. Len(open_set) :
         open_set[k][1] - open_set[k][2]
           = thermodynamic_heuristic(open_set[k][3], end_node, P_grid, V_grid)
  /\ (pc \in {"astar", "astar_path"}) => args.algorithm = "astar"
  /\ (pc \in {"dijkstra", "dijkstra_path"}) => args.algorithm # "astar"
  /\ (pc = "done" /\ first.set /\ ListedKeys(args) = ListedKeys(first.args)) =>
       Computed(result) = Computed(first.result)

\* A call with four unlisted keys that searched with astar semantics is not
\* reachable (bfs runs dijkstra), so the case is split: an astar call with
\* unlisted target, heuristic and gas type has returned a path of three or
\* more nodes that an earlier call with the listed keys had returned.
C11_Witness ==
  /\ pc = "done"
  /\ first.set
  /\ first.args = ListedKeys(args)
  /\ args.optimization_target = "min_time"
  /\ args.algorithm = "astar"
  /\ args.heuristic = "octile"
  /\ args.gas_type = "plasma"
  /\ result # NoneResult
  /\ Len(path_nodes) >= 3
\* ----------------------------------------------------------------- C12
\* dU, dH, dS, dG of a result.
StateChanges(r) == [dU |-> r.dU, dH |-> r.dH, dS |-> r.dS, dG |-> r.dG]

\* C12: in every non-null result dU, dH, dS and dG are the state-model
\* functions of the requested endpoints (not of the nodes they snap to) and
\* the gas type, dS being calculate_entropy_change of the four requested
\* values; two calls with the same requested endpoints and gas type report
\* the same four values whatever their algorithm, heuristic, objective,
\* grid size and constraints.
C12_StateChangesOfRequestedEndpoints ==
  (pc = "done" /\ result # NoneResult) =>
    /\ result.dU = calculate_internal_energy_change(args.P1, args.V1, args.P2,
                                                    args.V2, args.gas_type, n)
    /\ result.dH = calculate_enthalpy_change(args.P1, args.V1, args.P2, args.V2,
                                             args.gas_type, n)
    /\ result.dS = calculate_entropy_change(args.P1, args.V1, args.P2, args.V2,
                                            args.gas_type, n)
    /\ result.dG = calculate_gibbs_free_energy_change(args.P1, args.V1, args.P2,
                                                      args.V2, args.gas_type, n)
    /\ (/\ first.set /\ first.result # NoneResult
        /\ first.args.P1 = args.P1 /\ first.args.V1 = args.V1
        /\ first.args.P2 = args.P2 /\ first.args.V2 = args.V2
        /\ first.args.gas_type = args.gas_type)
         => StateChanges(result) = StateChanges(first.result)

\* A diatomic call whose requested start state is not a grid sample has
\* returned a path with a non-zero dS, after an earlier call with the same
\* endpoints and gas but another algorithm, objective, grid size and
\* constraint set returned one.
C12_Witness ==
  /\ pc = "done"
  /\ result # NoneResult
  /\ first.set /\ first.result # NoneResult
  /\ first.args.P1 = args.P1 /\ first.args.V1 = args.V1
  /\ first.args.P2 = args.P2 /\ first.args.V2 = args.V2
  /\ first.args.gas_type = args.gas_type
  /\ args.gas_type = "diatomic"
  /\ first.args.algorithm # args.algorithm
  /\ first.args.optimization_target = "min_entropy"
  /\ args.optimization_target = "max_work"
  /\ first.args.grid_size # args.grid_size
  /\ first.args.constraints # args.constraints
  /\ P_grid[start_node[1]] # args.P1
  /\ V_grid[start_node[2]] # args.V1
  /\ result.dS # 0
  /\ Len(path_nodes) >= 2
\* ----------------------------------------------------------------- C13
\* C13: the state-model functions do not fail on degenerate arguments and
\* return 0 on them: calculate_temperature for 0 mol,
\* calculate_pressure for a volume of 0, calculate_volume for a pressure of
\* 0, calculate_efficiency for a reversible work of 0,
\* calculate_work_general for fewer than 2 samples, and
\* calculate_entropy_change when V1, V2, T1 or T2 is not positive; no
\* division by 0 and no logarithm of a non-positive number is evaluated.
C13_DegenerateArgumentsGiveZero ==
  pc = "state_done" =>
    /\ args.mol = 0 => result.temperature = 0
    /\ args.V1 = 0 => result.pressure = 0
    /\ args.P1 = 0 => result.volume = 0
    /\ args.W_reversible = 0 => result.efficiency = 0
    /\ (Len(args.P_array) < 2 \/ Len(args.V_array) < 2) => result.W = 0
    /\ (\/ args.V1 <= 0 \/ args.V2 <= 0
        \/ calculate_temperature(args.P1, args.V1, args.mol) <= 0
        \/ calculate_temperature(args.P2, args.V2, args.mol) <= 0)
         => result.dS = 0
    /\ \A ev \in result.evaluates : Defined(ev)

\* The functions were applied on 0 mol, a pressure of 0, a volume of 0, a
\* reversible work of 0 with a non-zero work, a single pressure sample and
\* an ordinary end state, and each returned 0.
C13_Witness ==
  /\ pc = "state_done"
  /\ args.mol = 0 /\ args.P1 = 0 /\ args.V1 = 0 /\ args.T > 0
  /\ args.P2 > 0 /\ args.V2 > 0
  /\ args.W_reversible = 0 /\ args.W # 0
  /\ Len(args.P_array) = 1 /\ Len(args.V_array) = 2
  /\ result.temperature = 0 /\ result.pressure = 0 /\ result.volume = 0
  /\ result.efficiency = 0 /\ result.W = 0 /\ result.dS = 0
\* ----------------------------------------------------------------- C14
\* C14: whatever the grid and the requested endpoints (P, V <= 0
\* included), build_graph (is_valid_edge and calculate_edge_weight on every
\* pair of neighbours), the heuristic of astar on every node and the
\* synthesis of the result divide by no 0 and take the logarithm of no
\* non-positive number.
C14_NothingUndefinedIsEvaluated ==
  /\ GraphBuilt =>
       \A ev \in build_graph_evaluates(P_grid, V_grid, args.allow_diagonal,
                                       args.optimization_target,
                                       args.constraints) : Defined(ev)
  /\ (GraphBuilt /\ pc = "astar") =>
       \A node \in DOMAIN graph :
         \A ev \in h_func_evaluates(args.heuristic, node, end_node, P_grid,
                                    V_grid) : Defined(ev)
  /\ (pc = "done" /\ result # NoneResult) =>
       \A ev \in PathResult_evaluates(args, result.W, result.W_reversible) :
         Defined(ev)

\* A max_efficiency call with a requested start volume of -1 and a
\* requested end pressure of 0 has returned a path of two or more nodes
\* found by astar with the thermodynamic heuristic.
C14_Witness ==
  /\ pc = "done"
  /\ result # NoneResult
  /\ args.V1 < 0 /\ args.P2 = 0 /\ args.V2 > 0
  /\ args.optimization_target = "max_efficiency"
  /\ args.algorithm = "astar" /\ args.heuristic = "thermodynamic"
  /\ Len(path_nodes) >= 2
\* ----------------------------------------------------------------- C15
\* The number of came_from links from node to a node without one, or -1
\* when more than k links are followed (the links form a cycle when k is
\* the number of nodes).
RECURSIVE ChainLength(_, _)
ChainLength(node, k) ==
  IF node \notin DOMAIN came_from THEN 0
  ELSE IF k = 0 THEN -1
  ELSE LET rest == ChainLength(came_from[node], k - 1)
       IN IF rest < 0 THEN -1 ELSE rest + 1

\* C15: every call of astar terminates, for every objective and heuristic:
\* when the goal is popped, the came_from links lead from it to a node
\* without a link (the start) in finitely many steps, so the
\* reconstruction loop ends.
C15_AstarTerminates ==
  pc = "astar_path" => ChainLength(current, Cardinality(DOMAIN graph)) >= 0
\* ----------------------------------------------------------------- C16
RECURSIVE SumOutDegree(_)
SumOutDegree(nodes) ==
  IF nodes = {} THEN 0
  ELSE LET v == CHOOSE x \in nodes : TRUE
       IN Len(graph[v]) + SumOutDegree(nodes \ {v})

\* The loops of dijkstra can take their next step, and the queue never
\* holds more than the start entry and one entry for each edge out of a
\* settled node.
DijkstraBounded ==
  /\ pc = "dijkstra" => (pq # <<>> /\ Len(pq) <= 1 + SumOutDegree(visited))
  /\ pc = "dijkstra_path" =>
       /\ current \in visited
       /\ \A k \in 1 .. Len(path) : path[k] # current

\* One pop either finds a settled node and pushes nothing, or settles one
\* more node and pushes at most one entry for each of its edges; one step
\* of the reconstruction moves to the predecessor.
DijkstraProgress ==
  /\ pc = "dijkstra" =>
       \/ visited' = visited /\ Len(pq') = Len(pq) - 1
       \/ \E v \in DOMAIN graph \ visited :
            /\ visited' = visited \cup {v}
            /\ Len(pq') <= Len(pq) - 1 + Len(graph[v])
  /\ pc = "dijkstra_path" => Len(path') = Len(path) + 1

\* C16: dijkstra terminates on every graph, negative weights and
\* negative-cost cycles included: only the node a pop settles pushes, a
\* node is settled at most once, so the pushes are bounded by the edges of
\* the settled nodes and every pop shortens the queue or settles a node;
\* the reconstruction never returns to a node it has appended.
C16_DijkstraTerminates == []DijkstraBounded /\ [][DijkstraProgress]_vars

\* dijkstra has returned a path of four or more nodes and of negative
\* cost on a graph with a negative-cost cycle next to the start, leaving
\* entries in the queue.
C16_Witness ==
  /\ pc = "done"
  /\ args.algorithm = "dijkstra"
  /\ \E k \in 1 .. Len(graph[start_node]) : graph[start_node][k][2] < 0
  /\ Len(path_nodes) >= 4
  /\ total_cost < 0
  /\ pq # <<>>
\* ----------------------------------------------------------------- C17
\* The weight of the edge u -> v of the graph (the first, if build_graph
\* listed several), +infinity when there is none.
EdgeWeight(u, v) ==
  LET ks == {k \in 1 .. Len(graph[u]) : graph[u][k][1] = v}
  IN IF ks = {} THEN Inf ELSE graph[u][Min(ks)][2]

\* The cost of a sequence of nodes, when each is joined to the next.
RECURSIVE CostAlong(_, _)
CostAlong(nodes, k) ==
  IF k >= Len(nodes) THEN 0
  ELSE EdgeWeight(nodes[k], nodes[k + 1]) + CostAlong(nodes, k + 1)

IsPath(nodes) ==
  /\ \A k \in 1 .. Len(nodes) - 1 : EdgeWeight(nodes[k], nodes[k + 1]) < Inf
  /\ \A k, l \in 1 .. Len(nodes) : k # l => nodes[k] # nodes[l]

DijkstraSettling ==
  pc = "dijkstra" =>
    LET popped == heappop(pq).item
    IN /\ visited \subseteq visited'
       /\ \A v \in visited :
            distances'[v] = distances[v] /\ previous'[v] = previous[v]
       /\ popped[2] \in visited =>
            /\ visited' = visited
            /\ distances' = distances /\ previous' = previous
            /\ Len(pq') = Len(pq) - 1
       /\ popped[2] \notin visited =>
            /\ visited' = visited \cup {popped[2]}
            /\ popped[1] = distances[popped[2]]
            /\ distances'[popped[2]] = popped[1]
       /\ popped[2] = end_node =>
            /\ distances' = distances /\ previous' = previous
            /\ Len(pq') = Len(pq) - 1
            /\ pc' # "dijkstra"

\* C18: in dijkstra a node is settled at most once (a later pop of it
\* changes nothing); the distance and the predecessor of a settled node
\* never change; a node is settled with the distance recorded for it at
\* that moment; and once the goal is settled the loop is left, the goal
\* itself not being expanded.
C18_DijkstraSettlesOnce ==
  [](pc = "dijkstra" => end_node \notin visited) /\ [][DijkstraSettling]_vars

\* Three or more nodes are settled, the next pop finds a settled node, and
\* an edge of negative weight from one settled node into another would
\* lower the distance of the latter.
C18_Witness ==
  /\ pc = "dijkstra"
  /\ Cardinality(visited) >= 3
  /\ heappop(pq).item[2] \in visited
  /\ \E u \in visited : \E k \in 1 .. Len(graph[u]) :
       /\ graph[u][k][1] \in visited
       /\ distances[u] + graph[u][k][2] < distances[graph[u][k][1]]
\* ----------------------------------------------------------------- C19
\* The node has been popped from the open set (and, unless it is the goal,
\* expanded): it has been reached and is not in the open set.
Popped(node) == g_score[node] < Inf /\ node \notin open_set_hash

\* C19: during one search of astar a node that has been popped and
\* expanded is never pushed onto the open set again, and its g-score and
\* its came_from link never change afterwards.
C19_AstarNeverReopens ==
  [][pc = "astar" =>
       \A node \in DOMAIN graph :
         Popped(node) =>
           /\ node \notin open_set_hash'
           /\ g_score'[node] = g_score[node]
           /\ (node \in DOMAIN came_from) = (node \in DOMAIN came_from')
           /\ node \in DOMAIN came_from => came_from'[node] = came_from[node]]_vars
\* ----------------------------------------------------------------- C20
\* C20: the node astar pops next was queued under its current f-score
\* (its current g-score plus the heuristic), and no node of the open set
\* has a smaller current f-score.
C20_PoppedKeyIsCurrentMinimum ==
  (pc = "astar" /\ open_set # <<>>) =>
    LET popped == heappop(open_set).item
    IN popped[3] \in open_set_hash =>
         /\ popped[1] = f_score[popped[3]]
         /\ popped[2] = g_score[popped[3]]
         /\ \A node \in open_set_hash : f_score[popped[3]] <= f_score[node]

\* ----------------------------------------------------------------- C21
\* C21: during an astar search the heap holds one entry for each node of
\* open_set_hash and no other entry, so the entry popped next is always of
\* a node in open_set_hash and `continue` (line 275) is never taken.
C21_OneHeapEntryPerOpenNode ==
  pc = "astar" =>
    /\ {open_set[k][3] : k \in 1 .. Len(open_set)} = open_set_hash
    /\ Len(open_set) = Cardinality(open_set_hash)
    /\ open_set # <<>> => heappop(open_set).item[3] \in open_set_hash

\* Three or more nodes are in the open set after three or more pops, one
\* of them with a g-score below the one it is queued under: it was improved
\* while in the open set and not pushed a second time.
C21_Witness ==
  /\ pc = "astar"
  /\ iterations >= 3
  /\ Len(open_set) >= 3
  /\ \E k \in 1 .. Len(open_set) : open_set[k][2] > g_score[open_set[k][3]]

\* ----------------------------------------------------------------- C22
\* The solver has returned a path (not None).
SolverReturnedPath(algorithm) ==
  /\ pc = "done"
  /\ args.algorithm = algorithm
  /\ path_nodes # NonePath

\* C22: when dijkstra returns a path, on any graph (negative weights
\* included), consecutive nodes of the path are joined by edges of the
\* graph and the returned cost is the sum of the weights of those edges.
C22_DijkstraCostIsPathCost ==
  SolverReturnedPath("dijkstra") =>
    /\ \A k \in 1 .. Len(path_nodes) - 1 :
         EdgeWeight(path_nodes[k], path_nodes[k + 1]) < Inf
    /\ total_cost = CostAlong(path_nodes, 1)

\* dijkstra has returned a path of four or more nodes with an edge of
\* negative weight on it, after a node of the path had its distance
\* lowered while it was queued (an entry for it is left in the queue).
C22_Witness ==
  /\ SolverReturnedPath("dijkstra")
  /\ Len(path_nodes) >= 4
  /\ \E k \in 1 .. Len(path_nodes) - 1 :
       EdgeWeight(path_nodes[k], path_nodes[k + 1]) < 0
  /\ \E k \in 1 .. Len(pq), l \in 1 .. Len(path_nodes) :
       pq[k][2] = path_nodes[l] /\ pq[k][1] > distances[path_nodes[l]]

\* ----------------------------------------------------------------- C23
\* C23: when astar returns a path, for every objective and heuristic,
\* consecutive nodes of the path are joined by edges of the graph and the
\* returned cost (the g-score of the goal) is the sum of the weights of
\* those edges.
C23_AstarCostIsPathCost ==
  SolverReturnedPath("astar") =>
    /\ \A k \in 1 .. Len(path_nodes) - 1 :
         EdgeWeight(path_nodes[k], path_nodes[k + 1]) < Inf
    /\ total_cost = CostAlong(path_nodes, 1)

\* astar has returned, under max_work, a path of four or more nodes and of
\* negative cost, after more pops than the path has nodes.
C23_Witness ==
  /\ SolverReturnedPath("astar")
  /\ args.optimization_target = "max_work"
  /\ Len(path_nodes) >= 4
  /\ total_cost < 0
  /\ iterations > Len(path_nodes)

\* ----------------------------------------------------------------- C24
\* u -> v is an edge build_graph makes: v is one of the 8 neighbours of u
\* on the grid (one of the 4 without diagonals), the step passed
\* is_valid_edge, and the graph lists it.
BuiltEdge(u, v) ==
  /\ \E k \in DOMAIN directions(args.allow_diagonal) :
       v = <<u[1] + directions(args.allow_diagonal)[k][1],
             u[2] + directions(args.allow_diagonal)[k][2]>>
  /\ is_valid_edge(P_grid[u[1]], V_grid[u[2]], P_grid[v[1]], V_grid[v[2]],
                   TRUE, args.constraints)
  /\ \E k \in 1 .. Len(graph[u]) : graph[u][k][1] = v

\* C24: a path returned by either solver is a walk in the built graph
\* (each node is joined to the next by an edge of the graph, i.e. a valid
\* step between adjacent grid nodes) that visits no node twice.
C24_PathIsSimpleWalk ==
  (pc = "done" /\ path_nodes # NonePath) =>
    /\ \A k \in 1 .. Len(path_nodes) :
         path_nodes[k] \in DOMAIN graph
    /\ \A k \in 1 .. Len(path_nodes) - 1 :
         BuiltEdge(path_nodes[k], path_nodes[k + 1])
    /\ \A k, l \in 1 .. Len(path_nodes) :
         k # l => path_nodes[k] # path_nodes[l]

\* astar has returned a path of four or more nodes of a constrained graph
\* in which the step back along the path's last edge is not an edge.
C24_Witness ==
  /\ SolverReturnedPath("astar")
  /\ args.constraints # NoConstraints
  /\ Len(path_nodes) >= 4
  /\ ~BuiltEdge(path_nodes[Len(path_nodes)], path_nodes[Len(path_nodes) - 1])

\* ----------------------------------------------------------------- C25
\* C25: in a built graph every (i, j) with 0 <= i, j < grid_size is a key
\* and nothing else is; every edge joins two in-bounds nodes whose index
\* offset is one of the 8 neighbour directions; without diagonals every
\* edge changes exactly one of i, j, by exactly 1.
C25_GraphShape ==
  GraphBuilt =>
    LET Indices == 0 .. args.grid_size - 1
    IN /\ DOMAIN graph = Indices \X Indices
       /\ \A u \in DOMAIN graph : \A k \in 1 .. Len(graph[u]) :
            LET v == graph[u][k][1]
                di == Abs(v[1] - u[1])
                dj == Abs(v[2] - u[2])
            IN /\ v[1] \in Indices /\ v[2] \in Indices
               /\ di <= 1 /\ dj <= 1 /\ di + dj >= 1
               /\ ~args.allow_diagonal => di + dj = 1

\* A graph of a 4 x 4 grid has been built without diagonals: some inner
\* node has 3 or 4 edges, a corner node has at most 2, and some node lacks
\* the edge to a neighbour that is on the grid.
C25_Witness ==
  /\ GraphBuilt
  /\ args.grid_size = 4 /\ ~args.allow_diagonal
  /\ \E u \in DOMAIN graph :
       u[1] \in 1 .. 2 /\ u[2] \in 1 .. 2 /\ Len(graph[u]) >= 3
  /\ Len(graph[<<0, 0>>]) <= 2
  /\ \E u \in DOMAIN graph : \E k \in DOMAIN directions(FALSE) :
       LET v == <<u[1] + directions(FALSE)[k][1], u[2] + directions(FALSE)[k][2]>>
       IN /\ v \in DOMAIN graph
          /\ \A e \in 1 .. Len(graph[u]) : graph[u][e][1] # v

\* ----------------------------------------------------------------- C26
\* The entropy change calculate_edge_weight computes for the step u -> v:
\* that of the default gas and amount.
EdgeEntropyChange(u, v) ==
  calculate_entropy_change(P_grid[u[1]], V_grid[u[2]], P_grid[v[1]], V_grid[v[2]], "monatomic", n)

\* C26: under min_entropy every edge weight of the built graph is strictly
\* positive: the entropy change of the step when that is positive, and
\* 0.01 otherwise.
C26_MinEntropyWeightsPositive ==
  (GraphBuilt /\ args.optimization_target = "min_entropy") =>
    \A u \in DOMAIN graph : \A k \in 1 .. Len(graph[u]) :
      LET dS == EdgeEntropyChange(u, graph[u][k][1])
          weight == graph[u][k][2]
      IN /\ weight > 0
         /\ dS > 0 => weight = (dS * (Unit * Unit)) \div (EntScale \div 200)
         /\ dS <= 0 => weight = CostScale \div 100

\* A min_entropy graph has been built that has an edge of positive entropy
\* change, an edge of negative entropy change and an edge whose weight is
\* below 0.01.
C26_Witness ==
  /\ GraphBuilt /\ args.optimization_target = "min_entropy"
  /\ \E u \in DOMAIN graph : \E k \in 1 .. Len(graph[u]) :
       EdgeEntropyChange(u, graph[u][k][1]) > 0
  /\ \E u \in DOMAIN graph : \E k \in 1 .. Len(graph[u]) :
       EdgeEntropyChange(u, graph[u][k][1]) < 0
  /\ \E u \in DOMAIN graph : \E k \in 1 .. Len(graph[u]) :
       graph[u][k][2] < CostScale \div 100

\* ----------------------------------------------------------------- C27
\* The sum of calculate_edge_weight over the steps of a node sequence.
RECURSIVE WeightAlong(_, _, _)
WeightAlong(nodes, k, optimization_target) ==
  IF k >= Len(nodes) THEN 0
  ELSE calculate_edge_weight(P_grid[nodes[k][1]], V_grid[nodes[k][2]], P_grid[nodes[k + 1][1]], V_grid[nodes[k + 1][2]], optimization_target)
         + WeightAlong(nodes, k + 1, optimization_target)

C28_ThermodynamicHeuristicAdmissible ==
  (GraphBuilt /\ args.optimization_target = "max_work") =>
    /\ thermodynamic_heuristic(end_node, end_node, P_grid, V_grid) = 0
    /\ \A node \in DOMAIN graph :
         thermodynamic_heuristic(node, end_node, P_grid, V_grid)
           <= MinCost(graph, node, end_node)

\* ----------------------------------------------------------------- C29
\* The arguments of a call but for its gas type.
SearchArgs(a) == [a EXCEPT !.gas_type = "monatomic"]

\* C29: the gas type does not influence the search.  Two calls that differ
\* in nothing but the gas type (monatomic, diatomic, polyatomic) both
\* return None or return the same path_nodes, total_cost and W (and the
\* same sampled path).
C29_GasTypeDoesNotInfluenceSearch ==
  (pc = "done" /\ first.set /\ SearchArgs(first.args) = SearchArgs(args)) =>
    /\ result = NoneResult <=> first.result = NoneResult
    /\ result # NoneResult =>
         /\ result.path_nodes = first.result.path_nodes
         /\ result.total_cost = first.result.total_cost
         /\ result.W = first.result.W
         /\ result.P_array = first.result.P_array
         /\ result.V_array = first.result.V_array

\* A min_entropy call has returned a path of two or more nodes after an
\* earlier call that differed from it in the gas type only, and the two
\* results differ in dU, dH, dS, dG and Q.
C29_Witness ==
  /\ pc = "done" /\ first.set
  /\ SearchArgs(first.args) = SearchArgs(args)
  /\ first.args.gas_type # args.gas_type
  /\ "polyatomic" \in {first.args.gas_type, args.gas_type}
  /\ args.optimization_target = "min_entropy"
  /\ result # NoneResult
  /\ Len(result.path_nodes) >= 2
  /\ result.dU # first.result.dU /\ result.dH # first.result.dH
  /\ result.dS # first.result.dS /\ result.dG # first.result.dG
  /\ result.Q # first.result.Q

\* ----------------------------------------------------------------- C30
\* C30: every non-null result satisfies Q = dU + W, with W the work
\* integrated over the returned path and dU that of the requested
\* endpoints, and its efficiency is 100 * W / W_reversible, or 0 when
\* W_reversible is 0.
C30_FirstLawAndEfficiency ==
  (pc = "done" /\ result # NoneResult) =>
    /\ result.Q = result.dU + result.W
    /\ result.W = calculate_work_general(result.P_array, result.V_array)
    /\ \A k \in 1 .. Len(path_nodes) :
         /\ result.P_array[k] = P_grid[path_nodes[k][1]]
         /\ result.V_array[k] = V_grid[path_nodes[k][2]]
    /\ result.dU = calculate_internal_energy_change(args.P1, args.V1, args.P2, args.V2, args.gas_type, n)
    /\ result.W_reversible = 0 => result.efficiency = 0
    /\ result.W_reversible # 0 =>
         result.efficiency = (100 * result.W) \div result.W_reversible

\* A result has been returned whose W, dU, Q and W_reversible are all
\* non-zero, whose efficiency is neither 0 nor 100 percent, and whose
\* requested start state is not the state of the path's first node.
C30_Witness ==
  /\ pc = "done" /\ result # NoneResult
  /\ Len(path_nodes) >= 3
  /\ result.W # 0 /\ result.dU # 0 /\ result.Q # 0
  /\ result.W_reversible # 0
  /\ result.efficiency \notin {0, 100}
  /\ P_grid[start_node[1]] # args.P1
====
